---------------------------- MODULE Spec2Model ----------------------------
(***************************************************************************)
(* A model of the two numerical cores of the course repository:           *)
(*                                                                         *)
(*   - DoublePendulumSimulator and its controller delegates                *)
(*     (exercise3/rcp/doublependulum.py, exercise1/dblpend_*.py,           *)
(*     exercise2/ndblpend_*.py);                                           *)
(*   - the path generators Path and NPath (exercise1/rcp/path.py,          *)
(*     exercise3/rcp/npath.py).                                            *)
(*                                                                         *)
(* Numbers.  The code computes in IEEE floating point.  The model          *)
(* computes in decimal fixed point: a real value v is the integer          *)
(* round(v * SCALE), products and quotients are rounded to the nearest     *)
(* unit, and the transcendental functions of the math module are           *)
(* polynomial (sin, cos) or search (sqrt, asin, acos, atan2) operators     *)
(* on such integers.  The pendulum state vector is kept at the finer       *)
(* resolution FINE so that one Euler step of dt = 0.001 s does not round   *)
(* away; time is counted in microseconds.  The float specials inf and nan  *)
(* that NPath produces are two reserved integers, and every NPath          *)
(* operation goes through operators that treat them as IEEE 754 does.      *)
(***************************************************************************)
EXTENDS Integers, Sequences, FiniteSets, TLC

(***************************************************************************)
(* Fixed-point arithmetic                                                  *)
(***************************************************************************)
SCALE == 10 * 10 * 10
FINE  == SCALE * SCALE

Abs(x) == IF x < 0 THEN -x ELSE x
Sgn(x) == IF x > 0 THEN 1 ELSE IF x < 0 THEN -1 ELSE 0
Min2(a, b) == IF a < b THEN a ELSE b
Max2(a, b) == IF a > b THEN a ELSE b

\* n / d rounded to the nearest integer, halves away from zero (d > 0)
Rnd(n, d) ==
    IF n >= 0 THEN (2 * n + d) \div (2 * d)
              ELSE -((2 * (-n) + d) \div (2 * d))

\* the product of two fixed-point values; the operands are split so that no
\* intermediate result leaves the 32-bit range of TLC's integers
Mul(a, b) ==
    LET x  == Abs(a)
        y  == Abs(b)
        xh == x \div SCALE
        xl == x % SCALE
        yh == y \div SCALE
        yl == y % SCALE
    IN  Sgn(a) * Sgn(b) * (xh * yh * SCALE + xh * yl + xl * yh + Rnd(xl * yl, SCALE))

\* the quotient of two fixed-point values (b # 0)
Div(a, b) ==
    LET x == Abs(a)
        y == Abs(b)
    IN  Sgn(a) * Sgn(b) * ((x \div y) * SCALE + Rnd((x % y) * SCALE, y))

\* one step of a search by halving: r + step if its square does not exceed n
SqrtRefine(n, r, step) ==
    IF r + step <= 46340 /\ (r + step) * (r + step) <= n THEN r + step ELSE r

\* the search from r on, by steps of step, step / 2, ..., 1
RECURSIVE ISqrtFrom(_, _, _)
ISqrtFrom(n, r, step) ==
    IF step = 0 THEN r
    ELSE IF SqrtRefine(n, r, step) = r THEN ISqrtFrom(n, r, step \div 2)
    ELSE ISqrtFrom(n, r + step, step \div 2)

\* largest r with r * r <= n, for 0 <= n < 2^31
ISqrt(n) == ISqrtFrom(n, 0, 32768)

\* math.sqrt on a fixed-point value v >= 0: the nearest fixed-point root
Sqrt(v) ==
    LET n == v * SCALE
        r == ISqrt(n)
    IN  IF r < 46340 /\ (r + 1) * (r + 1) - n < n - r * r THEN r + 1 ELSE r

(***************************************************************************)
(* math.pi, math.sin, math.cos, math.asin, math.acos, math.atan2           *)
(***************************************************************************)
PI == 3142
HALFPI == PI \div 2
TWOPI == 2 * PI

\* an angle reduced to the interval (-PI, PI]
Wrap(x) == ((x + PI - 1) % TWOPI) - PI + 1

\* sin x for 0 <= x <= HALFPI: the Taylor polynomial to x^7, in Horner form
SinPoly(x) ==
    LET u  == Rnd(x * x, 100)
        a3 == 10000 - Rnd(u, 42)
        a2 == 10000 - Rnd(u * a3, 200000)
        a1 == 10000 - Rnd(u * a2, 60000)
    IN  Rnd(x * a1, 10000)

\* cos x for 0 <= x <= HALFPI: the Taylor polynomial to x^8, in Horner form
CosPoly(x) ==
    LET u  == Rnd(x * x, 100)
        c4 == 10000 - Rnd(u, 56)
        c3 == 10000 - Rnd(u * c4, 300000)
        c2 == 10000 - Rnd(u * c3, 120000)
        c1 == 10000 - Rnd(u * c2, 20000)
    IN  Rnd(c1, 10)

SIN(x) ==
    LET w == Wrap(x)
        y == Abs(w)
    IN  Sgn(w) * SinPoly(IF y > HALFPI THEN PI - y ELSE y)

COS(x) ==
    LET y == Abs(Wrap(x))
    IN  IF y > HALFPI THEN -CosPoly(PI - y) ELSE CosPoly(y)

\* one step of a search by halving: a + step if the sine there is still below s
ASinRefine(s, a, step) ==
    IF a + step <= HALFPI /\ SinPoly(a + step) < s THEN a + step ELSE a

\* for 0 < s < 1: the angle after the largest one the search finds with sine below s
ASinSearch(s) ==
    LET a10 == ASinRefine(s, 0, 1024)
        a9  == ASinRefine(s, a10, 512)
        a8  == ASinRefine(s, a9, 256)
        a7  == ASinRefine(s, a8, 128)
        a6  == ASinRefine(s, a7, 64)
        a5  == ASinRefine(s, a6, 32)
        a4  == ASinRefine(s, a5, 16)
        a3  == ASinRefine(s, a4, 8)
        a2  == ASinRefine(s, a3, 4)
        a1  == ASinRefine(s, a2, 2)
        a0  == ASinRefine(s, a1, 1)
    IN  Min2(a0 + 1, HALFPI)

\* math.asin for -1 <= s <= 1; asin(1) is HALFPI
ASIN(s) ==
    LET y == Abs(s)
    IN  Sgn(s) * (IF y >= SCALE THEN HALFPI ELSE IF y = 0 THEN 0 ELSE ASinSearch(y))

\* math.acos for -1 <= c <= 1; acos(1) is 0, acos(-1) is PI
ACOS(c) == HALFPI - ASIN(c)

\* math.atan2(y, x): the angle of the vector (x, y) in (-PI, PI]; 0 for (0, 0)
ATAN2Polar(y, x, r) ==
    IF Abs(y) <= Abs(x)
    THEN IF x > 0 THEN ASIN(Div(y, r))
         ELSE IF y >= 0 THEN PI - ASIN(Div(y, r)) ELSE -PI - ASIN(Div(y, r))
    ELSE IF y > 0 THEN ACOS(Div(x, r)) ELSE -ACOS(Div(x, r))

ATAN2(y, x) ==
    IF x = 0 /\ y = 0 THEN 0 ELSE ATAN2Polar(y, x, Sqrt(Mul(x, x) + Mul(y, y)))

(***************************************************************************)
(* Conversions between the two resolutions                                 *)
(***************************************************************************)
ToMilli(x) == Rnd(x, SCALE)
ToFine(x)  == x * SCALE

Vec2Add(a, b) == <<a[1] + b[1], a[2] + b[2]>>
Vec2Sub(a, b) == <<a[1] - b[1], a[2] - b[2]>>
Zero2 == <<0, 0>>
Zero4 == <<0, 0, 0, 0>>

(***************************************************************************)
(* The program's objects.  Every simulator of the application owns one     *)
(* controller of the class handed to main(); sim i's controller has        *)
(* identity i.                                                             *)
(***************************************************************************)
NSim == 2
Sims == 0 .. (NSim - 1)
Kinds == {"pd", "keyframes", "swingup", "free", "spirals"}

\* DoublePendulumSimulator.dt = 0.001 s, in fixed-point seconds and in microseconds
DT  == 1
DTF == DT * SCALE

VARIABLES
    kind,          \* the controller class the application was started with
    control,       \* sim -> "none" or the class of the attached controller
    t,             \* sim -> simulated time, microseconds
    state,         \* sim -> <<q1, q2, qd1, qd2>>, resolution FINE
    tau,           \* sim -> <<tau1, tau2>>
    dydt,          \* sim -> the derivative array, resolution FINE
    origin,        \* sim -> <<x, y>>
    dyn,           \* sim -> the dynamics parameters
    stateAlias,    \* sim -> TRUE iff self.state is the array control.initial_state
    ctl,           \* sim -> the controller's mutable fields
    pc,            \* position inside timer_tick: "idle" between calls
    cur,           \* the simulator whose timer_tick is running
    delta_t,       \* timer_tick's local delta_t, microseconds
    stp,           \* what the current inner step has done so far
    steps,         \* sim -> number of compute_control calls made on the sim's controller
    ret,           \* the last direct call of a method and what it returned
    path,          \* the scalar Path object
    npath,         \* the NPath object
    last,          \* the last operation on Path / NPath / SimWinch and its arguments
    winch,         \* the SimWinch object: axis -> its Path
    show           \* the performance: script thread, its queues, MotionPrimitives

pendVars == <<kind, control, t, state, tau, dydt, origin, dyn, stateAlias, ctl,
              pc, cur, delta_t, stp, steps, ret>>
pathVars == <<path, npath, last, winch, show>>
vars == <<pendVars, pathVars>>

(***************************************************************************)
(* DoublePendulumSimulator.set_default_dynamic_parameters                  *)
(***************************************************************************)
DefaultDynamics ==
    LET l1 == 1000
        l2 == 1000
        m1 == 1000
        m2 == 1000
    IN  [l1 |-> l1, l2 |-> l2, lc1 |-> 500, lc2 |-> 500, m1 |-> m1, m2 |-> m2,
         I1 |-> Rnd(Mul(m1, Mul(l1, l1)), 12),
         I2 |-> Rnd(Mul(m2, Mul(l2, l2)), 12),
         gravity |-> -9810]

\* dynamics with other link lengths, the remaining coefficients as set by default
DynamicsWith(l1, l2) ==
    [DefaultDynamics EXCEPT !.l1 = l1, !.l2 = l2,
                            !.I1 = Rnd(Mul(DefaultDynamics.m1, Mul(l1, l1)), 12),
                            !.I2 = Rnd(Mul(DefaultDynamics.m2, Mul(l2, l2)), 12)]

(***************************************************************************)
(* DoublePendulumSimulator.deriv: the derivative of state st under torque  *)
(* tq with parameters p.  Positions and velocities enter the products at   *)
(* resolution SCALE.                                                       *)
(***************************************************************************)
\* gravity torques with the angles taken from the horizontal
Phi1FromHorizontal(p, q1, q2) ==
    Mul(Mul(Mul(-p.m2, p.lc2), p.gravity), COS(q1 + q2))
      - Mul(Mul(Mul(p.m1, p.lc1) + Mul(p.m2, p.l1), p.gravity), COS(q1))

\* phi1, phi2: the gravity torques on the two joints
Phi1(p, q1, q2) ==
    Mul(Mul(Mul(-p.m2, p.lc2), p.gravity), SIN(q1 + q2))
      - Mul(Mul(Mul(p.m1, p.lc1) + Mul(p.m2, p.l1), p.gravity), SIN(q1))
Phi2(p, q1, q2) ==
    Mul(Mul(Mul(-p.m2, p.lc2), p.gravity), SIN(q1 + q2))

Deriv(p, st, tq) ==
    LET q1  == ToMilli(st[1])
        q2  == ToMilli(st[2])
        qd1 == ToMilli(st[3])
        qd2 == ToMilli(st[4])
        LC1 == p.lc1
        LC2 == p.lc2
        L1  == p.l1
        M1  == p.m1
        M2  == p.m2
        d11 == Mul(Mul(M1, LC1), LC1)
               + Mul(M2, Mul(L1, L1) + Mul(LC2, LC2) + Mul(Mul(2 * L1, LC2), COS(q2)))
               + p.I1 + p.I2
        d12 == Mul(M2, Mul(LC2, LC2) + Mul(Mul(L1, LC2), COS(q2))) + p.I2
        d21 == d12
        d22 == Mul(Mul(M2, LC2), LC2) + p.I2
        mls == Mul(Mul(Mul(M2, L1), LC2), SIN(q2))
        h1  == Mul(Mul(-mls, qd2), qd2) - Mul(Mul(2 * mls, qd2), qd1)
        h2  == Mul(Mul(mls, qd1), qd1)
        phi1 == Phi1(p, q1, q2)
        phi2 == Phi2(p, q1, q2)
        rhs1 == tq[1] - h1 - phi1
        rhs2 == tq[2] - h2 - phi2
        denom == Mul(d11, d22) - Mul(d21, d12)
    IN  <<st[3],
          st[4],
          ToFine(Div(Mul(rhs1, d22) - Mul(rhs2, d12), denom)),
          ToFine(Div(Mul(d11, rhs2) - Mul(d21, rhs1), denom))>>

\* a variant of the update that integrates the positions with the velocities it
\* has just updated
EulerStepVelocityFirst(st, qd) ==
    <<st[1] + Mul(DT, st[3] + Mul(DT, qd[3])), st[2] + Mul(DT, st[4] + Mul(DT, qd[4])),
      st[3] + Mul(DT, qd[3]), st[4] + Mul(DT, qd[4])>>

\* the Euler update of timer_tick: state + dt * qd
EulerStep(st, qd) == [k \in 1..4 |-> st[k] + Mul(DT, qd[k])]

(***************************************************************************)
(* DoublePendulumSimulator.forwardKinematics.  The result tells what the   *)
(* call returned and what it left in the simulator fields it can reach     *)
(* and in the array it was handed.                                         *)
(***************************************************************************)
ForwardKinematics(p, org, q) ==
    LET elbow == Vec2Add(org, <<Mul(p.l1, SIN(q[1])), Mul(-p.l1, COS(q[1]))>>)
        end   == Vec2Add(elbow, <<Mul(p.l2, SIN(q[1] + q[2])), Mul(-p.l2, COS(q[1] + q[2]))>>)
    IN  [elbow |-> elbow, end |-> end, arg |-> q, origin |-> org, dyn |-> p]

(***************************************************************************)
(* DoublePendulumSimulator.endpointIK.  target = target - self.origin      *)
(* binds a new array to the local name: the caller's array is untouched.   *)
(***************************************************************************)
\* the two solutions and what the call computed on the way; math.acos and
\* math.asin raise ValueError outside [-1, 1]
IKResult(p, org, target0, radius, radiussq, theta, acosarg, elbow_supplement, acos_called, asinarg, alpha) ==
    [soln1 |-> <<theta - alpha, PI - elbow_supplement>>,
     soln2 |-> <<theta + alpha, elbow_supplement - PI>>,
     raised |-> Abs(asinarg) > SCALE \/ (acos_called /\ Abs(acosarg) > SCALE),
     radius |-> radius, radiussq |-> radiussq, theta |-> theta,
     acosarg |-> acosarg, acos_called |-> acos_called,
     elbow_supplement |-> elbow_supplement, alpha |-> alpha,
     arg |-> target0, origin |-> org, dyn |-> p]

\* alpha = math.asin(l2 * sin(elbow_supplement) / radius)
IKAlpha(p, org, target0, radius, radiussq, theta, acosarg, elbow_supplement, acos_called, asinarg) ==
    IKResult(p, org, target0, radius, radiussq, theta, acosarg, elbow_supplement,
             acos_called, asinarg,
             IF Abs(asinarg) > SCALE THEN 0 ELSE ASIN(asinarg))

\* the argument of math.asin
IKSine(p, org, target0, radius, radiussq, theta, acosarg, elbow_supplement, acos_called) ==
    IKAlpha(p, org, target0, radius, radiussq, theta, acosarg, elbow_supplement,
            acos_called,
            IF radius > 0 THEN Div(Mul(p.l2, SIN(elbow_supplement)), radius) ELSE 0)

\* the law of cosines without the two tests on its argument
IKElbowUnclamped(p, org, target0, radius, radiussq, theta, acosarg) ==
    IKSine(p, org, target0, radius, radiussq, theta, acosarg, ACOS(acosarg), TRUE)

\* the three branches on acosarg
IKElbow(p, org, target0, radius, radiussq, theta, acosarg) ==
    IF acosarg < -SCALE
    THEN IKSine(p, org, target0, radius, radiussq, theta, acosarg, PI, FALSE)
    ELSE IF acosarg > SCALE
    THEN IKSine(p, org, target0, radius, radiussq, theta, acosarg, 0, FALSE)
    ELSE IKSine(p, org, target0, radius, radiussq, theta, acosarg, ACOS(acosarg), TRUE)

\* radius, theta and the law of cosines
IKPolar(p, org, target0, target, radiussq) ==
    IKElbow(p, org, target0, Sqrt(radiussq), radiussq, ATAN2(target[1], -target[2]),
            Div(radiussq - Mul(p.l1, p.l1) - Mul(p.l2, p.l2), Mul(-2 * p.l1, p.l2)))

\* an endpointIK that subtracts the origin in place, in the caller's array
EndpointIKInPlace(p, org, target0) ==
    [IKPolar(p, org, target0, Vec2Sub(target0, org),
             Mul(target0[1] - org[1], target0[1] - org[1])
               + Mul(target0[2] - org[2], target0[2] - org[2]))
        EXCEPT !.arg = Vec2Sub(target0, org)]

EndpointIK(p, org, target0) ==
    IKPolar(p, org, target0, Vec2Sub(target0, org),
            Mul(target0[1] - org[1], target0[1] - org[1])
              + Mul(target0[2] - org[2], target0[2] - org[2]))

(***************************************************************************)
(* Controllers.  A compute_control operator is handed the controller's     *)
(* fields c, the arguments (t, dt, state, tau) and, for the ensemble       *)
(* controllers, what the world and the model answer; it returns the        *)
(* contents of the two arrays after the call, the set of tau entries the   *)
(* call assigned, the controller's fields after the call, and whether an   *)
(* exception left the call.                                                *)
(***************************************************************************)
NoFrame == 0 - 1                 \* last_frame = None
FrameLen == 1500 * SCALE         \* 1.5 s, microseconds
NumKeyframes == 4
FrictionDamping == -200
VelocityGain == 2000
RestBand == 10 * SCALE           \* 0.01, resolution FINE
PumpBand == 500 * SCALE          \* 0.5, resolution FINE

\* DoublePendulumController.__init__ and the subclasses' __init__: gains and setpoint
Gains(k) ==
    [kp |-> IF k = "spirals" THEN <<100000, 50000>> ELSE <<16000, 8000>>,
     ki |-> <<4000, 2000>>,
     kd |-> IF k = "spirals" THEN <<16000, 8000>> ELSE <<4000, 2000>>,
     d_state |-> <<ToFine(1000), ToFine(HALFPI), 0, 0>>]

\* initial_state of controller i of class k: the free pendulum starts at 3.0
\* and set_identity(i) adds 0.05 * i
InitialState(k, i) ==
    IF k = "free" THEN <<ToFine(3000) + i * ToFine(50), 0, 0, 0>> ELSE Zero4

NewController(k, i) ==
    [initial_state |-> InitialState(k, i),
     gains |-> Gains(k),
     keyframes |-> [f \in 0 .. (NumKeyframes - 1) |-> Zero2],
     last_frame |-> NoFrame,
     timestep |-> 0,
     console |-> <<>>]

\* a call starts with the two arrays as handed over and nothing assigned
Enter(c, st, tq) == [tau |-> tq, state |-> st, written |-> {}, ctl |-> c, raised |-> FALSE]

\* tau[i] = v inside a call (Python index i, zero-based)
SetTau(r, i, v) == [r EXCEPT !.tau[i + 1] = v, !.written = @ \cup {i}]

\* the PD law with the sign of both errors reversed
PDTorqueReversed(g, target, st, j) ==
    Mul(g.kp[j], ToMilli(st[j] - target[j])) + Mul(g.kd[j], ToMilli(st[j + 2] - target[j + 2]))

\* kp * qerr + kd * qderr for joint j (one-based) toward the setpoint target
PDTorque(g, target, st, j) ==
    Mul(g.kp[j], ToMilli(target[j] - st[j])) + Mul(g.kd[j], ToMilli(target[j + 2] - st[j + 2]))

\* tau[0] = ...; tau[1] = ... of the PD law
WritePD(r, g, target, st) ==
    SetTau(SetTau(r, 0, PDTorque(g, target, st, 1)), 1, PDTorque(g, target, st, 2))

\* a PD law with an integral term ki * qerr * dt added
PIDComputeControl(c, tArg, dtArg, st, tq) ==
    SetTau(SetTau(Enter(c, st, tq),
                  0, PDTorque(c.gains, c.gains.d_state, st, 1)
                       + Mul(c.gains.ki[1],
                             Mul(ToMilli(c.gains.d_state[1] - st[1]), ToMilli(dtArg)))),
           1, PDTorque(c.gains, c.gains.d_state, st, 2)
                + Mul(c.gains.ki[2],
                      Mul(ToMilli(c.gains.d_state[2] - st[2]), ToMilli(dtArg))))

\* DoublePendulumController.compute_control
PDComputeControl(c, tArg, dtArg, st, tq) ==
    WritePD(Enter(c, st, tq), c.gains, c.gains.d_state, st)

\* self.write("Starting frame %d" % frame) when the frame changed; last_frame = frame
KeyframesEnter(c, frame) ==
    [c EXCEPT !.last_frame = frame,
              !.console = IF frame # c.last_frame
                          THEN Append(@, <<"Starting frame", frame>>) ELSE @]

KeyframesTrack(c, frame, pose, st, tq) ==
    WritePD(Enter(KeyframesEnter(c, frame), st, tq), c.gains,
            <<ToFine(pose[1]), ToFine(pose[2]), 0, 0>>, st)

\* a keyframe controller that stays on the last pose instead of starting over
KeyframesNoLoop(c, tArg, dtArg, st, tq) ==
    KeyframesTrack(c, tArg \div FrameLen,
                   c.keyframes[Min2(tArg \div FrameLen, NumKeyframes - 1)], st, tq)

\* dblpend_keyframes.PendulumController.compute_control
KeyframesComputeControl(c, tArg, dtArg, st, tq) ==
    KeyframesTrack(c, tArg \div FrameLen, c.keyframes[(tArg \div FrameLen) % NumKeyframes], st, tq)

\* a swing-up law whose chain of tests has no final else: away from the
\* bottom tau[0] is not assigned
SwingupNoCoast(c, tArg, dtArg, st, tq) ==
    SetTau(IF Abs(st[3]) < RestBand /\ Abs(st[1]) < RestBand
           THEN SetTau(Enter(c, st, tq), 0, SCALE)
           ELSE IF Abs(st[1]) < PumpBand
           THEN SetTau(Enter(c, st, tq), 0, Mul(VelocityGain, ToMilli(st[3])))
           ELSE Enter(c, st, tq),
           1, Mul(FrictionDamping, ToMilli(st[4])))

\* a swing-up law that tests for the pumping band first
SwingupPumpFirst(c, tArg, dtArg, st, tq) ==
    SetTau(IF Abs(st[1]) < PumpBand
           THEN SetTau(Enter(c, st, tq), 0, Mul(VelocityGain, ToMilli(st[3])))
           ELSE IF Abs(st[3]) < RestBand /\ Abs(st[1]) < RestBand
           THEN SetTau(Enter(c, st, tq), 0, SCALE)
           ELSE SetTau(Enter(c, st, tq), 0, Mul(FrictionDamping, ToMilli(st[3]))),
           1, Mul(FrictionDamping, ToMilli(st[4])))

\* dblpend_swingup.PendulumController.compute_control
SwingupComputeControl(c, tArg, dtArg, st, tq) ==
    LET q0  == st[1]
        qd0 == st[3]
        qd1 == st[4]
        r0 == Enter(c, st, tq)
        r1 == IF Abs(qd0) < RestBand /\ Abs(q0) < RestBand
              THEN SetTau(r0, 0, SCALE)
              ELSE IF Abs(q0) < PumpBand
              THEN SetTau(r0, 0, Mul(VelocityGain, ToMilli(qd0)))
              ELSE SetTau(r0, 0, Mul(FrictionDamping, ToMilli(qd0)))
        r2 == SetTau(r1, 1, Mul(FrictionDamping, ToMilli(qd1)))
    IN  r2

\* a controller that leaves the torques as it finds them
FreeComputeControlKeepsTau(c, tArg, dtArg, st, tq) == Enter(c, st, tq)

\* ndblpend_free.PendulumController.compute_control: tau[0:2] = (0,0)
FreeComputeControl(c, tArg, dtArg, st, tq) ==
    SetTau(SetTau(Enter(c, st, tq), 0, 0), 1, 0)

\* ndblpend_spirals.PendulumController.compute_control for the controller of
\* identity id; end0 is what world.dblpend_endpoint(0) returns, p and org are
\* the link lengths and origin of the controller's own model
SpiralsTrack(c, id, st, tq, tm, end, ik, pose) ==
    IF ik.raised
    THEN [Enter(c, st, tq) EXCEPT !.raised = TRUE]
    ELSE [WritePD(Enter(IF id = 0 /\ c.timestep % 1000 = 0
                        THEN [c EXCEPT !.console = Append(@, <<"Time", tm, end>>)]
                        ELSE c, st, tq),
                  c.gains, <<ToFine(pose[1]), ToFine(pose[2]), 0, 0>>, st)
            EXCEPT !.ctl.timestep = @ + 1]

SpiralsSolve(c, id, st, tq, tm, end, ik) ==
    SpiralsTrack(c, id, st, tq, tm, end, ik, IF id = 0 THEN ik.soln1 ELSE ik.soln2)

SpiralsTarget(c, id, st, tq, end0, p, org, tm, end) ==
    SpiralsSolve(c, id, st, tq, tm, end, EndpointIK(p, org, IF id = 0 THEN end ELSE end0))

SpiralsPolar(c, id, st, tq, end0, p, org, tm, phase, radius) ==
    SpiralsTarget(c, id, st, tq, end0, p, org, tm,
                  <<SCALE + Mul(radius, COS(phase)), Mul(radius, SIN(phase))>>)

SpiralsComputeControl(c, id, tArg, dtArg, st, tq, end0, p, org) ==
    SpiralsPolar(c, id, st, tq, end0, p, org, ToMilli(tArg),
                 Mul(Mul(250, PI), ToMilli(tArg)),
                 100 + Mul(500, Abs(SIN(Mul(50, ToMilli(tArg))))))

\* the method the attached controller of class k binds to compute_control
ComputeControl(k, c, id, tArg, dtArg, st, tq, end0, p, org) ==
    CASE k = "pd"        -> PDComputeControl(c, tArg, dtArg, st, tq)
      [] k = "keyframes" -> KeyframesComputeControl(c, tArg, dtArg, st, tq)
      [] k = "swingup"   -> SwingupComputeControl(c, tArg, dtArg, st, tq)
      [] k = "free"      -> FreeComputeControl(c, tArg, dtArg, st, tq)
      [] k = "spirals"   -> SpiralsComputeControl(c, id, tArg, dtArg, st, tq, end0, p, org)

(***************************************************************************)
(* Bounds of the model and the arguments the operations are tried with     *)
(***************************************************************************)
MaxSteps == 3                    \* calls of compute_control before further calls are refused

\* delta_t arguments of timer_tick, microseconds
Deltas == {-500, 0, 500, 1000, 1500, 2500}

\* np.ndarray((4,)) allocates the array and does not fill it: its entries are
\* unspecified.  They are a value of their own that no arithmetic accepts, so
\* that a read before the first write is an evaluation error.
Uninit4 == <<"uninit", "uninit", "uninit", "uninit">>

\* arguments for direct calls of the kinematics and of compute_control
FKArgs == {<<0, 0>>, <<785, -HALFPI>>, <<-2000, 1000>>, <<PI, 300>>}
LinkLengths == {SCALE, 2 * SCALE}
KinOrigins == {Zero2, <<2200, 0>>}
\* targets relative to the origin, on circles of radius 0.5 to 4.5
IKOffsets ==
    ({<<x * 500, y * 500>> : x \in -2 .. 2, y \in -2 .. 2} \ {Zero2})
       \cup {<<1500, 0>>, <<3500, 0>>, <<0, -4500>>, <<-3000, 3000>>}
IKTargets == {Vec2Add(o, d) : o \in KinOrigins, d \in IKOffsets}
ProbeBase == [t |-> 0, dt |-> DTF, st |-> Zero4, tq |-> Zero2, ki |-> <<4000, 2000>>]
ProbeArgs ==
    {[ProbeBase EXCEPT !.st = st] :
        st \in {Zero4, <<5000, 0, 200000, -100000>>, <<600000, -300000, 200000, -100000>>}}
    \cup {[ProbeBase EXCEPT !.t = FrameLen + 100 * SCALE],
          [ProbeBase EXCEPT !.dt = 2 * DTF],
          [ProbeBase EXCEPT !.tq = <<5000, -3000>>],
          [ProbeBase EXCEPT !.ki = Zero2]}

NoCall == [op |-> "none"]
NoTick == [delta_t |-> 0, t0 |-> 0, state0 |-> Zero4, n |-> 0]
NoStep == [calls |-> 0, events |-> <<>>, tick |-> NoTick]

(***************************************************************************)
(* IEEE 754 specials.  Inf and NaN are two integers above every finite     *)
(* value of the model; the operators below give sums, products,            *)
(* comparisons and the min/max of Python and of NumPy on them.             *)
(***************************************************************************)
Inf == 2000000000
NaN == Inf + 1

IsNaN(a) == a = NaN
IsInf(a) == a = Inf \/ a = -Inf
FNeg(a) == IF IsNaN(a) THEN NaN ELSE -a
FAdd(a, b) ==
    IF IsNaN(a) \/ IsNaN(b) THEN NaN
    ELSE IF IsInf(a) THEN (IF b = -a THEN NaN ELSE a)
    ELSE IF IsInf(b) THEN b
    ELSE a + b
FSub(a, b) == FAdd(a, FNeg(b))
FMul(a, b) ==
    IF IsNaN(a) \/ IsNaN(b) THEN NaN
    ELSE IF IsInf(a) \/ IsInf(b)
         THEN (IF a = 0 \/ b = 0 THEN NaN ELSE Sgn(a) * Sgn(b) * Inf)
    ELSE Mul(a, b)
\* a < b, a <= b: false when either side is nan
FLess(a, b) == ~IsNaN(a) /\ ~IsNaN(b) /\ a < b
FLeq(a, b) == ~IsNaN(a) /\ ~IsNaN(b) /\ a <= b
\* Python's min(a, b) and max(a, b): the first argument unless the second is
\* strictly smaller (larger)
PyMin(a, b) == IF FLess(b, a) THEN b ELSE a
PyMax(a, b) == IF FLess(a, b) THEN b ELSE a
\* np.minimum, np.maximum, np.sign, np.abs: nan in, nan out
NpMinimum(a, b) == IF IsNaN(a) \/ IsNaN(b) THEN NaN ELSE Min2(a, b)
NpMaximum(a, b) == IF IsNaN(a) \/ IsNaN(b) THEN NaN ELSE Max2(a, b)
NpSign(a) == IF IsNaN(a) THEN NaN ELSE Sgn(a) * SCALE
NpAbs(a) == IF IsNaN(a) THEN NaN ELSE Abs(a)

(***************************************************************************)
(* Python floats for times.  A time is a float (IEEE binary64); the model  *)
(* keeps its exact value as a whole number of units of 2^-60 s, written    *)
(* <<h, m, l>> for h * 2^48 + m * 2^24 + l, and rounds every sum and       *)
(* difference to 53 significant bits, ties to even, as the hardware does.  *)
(* Every float of at least 2^-8 s is a whole number of units, and so are   *)
(* the sums and differences of such floats; the model uses no others.      *)
(* A negative float has its three limbs negated.                           *)
(***************************************************************************)
Limb == 2 ^ 24
DblZero == <<0, 0, 0>>

\* the limbs brought back into 0 .. Limb - 1, carries moved up
DblNorm(h, m, l) ==
    <<h + ((m + ((l - (l % Limb)) \div Limb)) - ((m + ((l - (l % Limb)) \div Limb)) % Limb))
            \div Limb,
      (m + ((l - (l % Limb)) \div Limb)) % Limb,
      l % Limb>>

\* the number of bits of n, 0 <= n < Limb, and of a non-negative value
BitLen3(n) == IF n >= 4 THEN 3 ELSE IF n >= 2 THEN 2 ELSE n
BitLen6(n) == IF n >= 8 THEN 3 + BitLen3(n \div 8) ELSE BitLen3(n)
BitLen12(n) == IF n >= 64 THEN 6 + BitLen6(n \div 64) ELSE BitLen6(n)
BitLen(n) == IF n >= 4096 THEN 12 + BitLen12(n \div 4096) ELSE BitLen12(n)
DblBits(d) ==
    IF d[1] > 0 THEN 48 + BitLen(d[1])
    ELSE IF d[2] > 0 THEN 24 + BitLen(d[2]) ELSE BitLen(d[3])

\* d with its last k bits (0 < k < 24) rounded away; a tie goes to the even
\* neighbour unless sticky tells that the exact value lies above d
DblDrop(d, k, sticky) ==
    IF (d[3] % (2 ^ k)) > 2 ^ (k - 1)
       \/ ((d[3] % (2 ^ k)) = 2 ^ (k - 1) /\ (sticky \/ (d[3] \div (2 ^ k)) % 2 = 1))
    THEN DblNorm(d[1], d[2], d[3] - (d[3] % (2 ^ k)) + 2 ^ k)
    ELSE <<d[1], d[2], d[3] - (d[3] % (2 ^ k))>>

\* a non-negative exact value rounded to the nearest float
DblRound(d) == IF DblBits(d) > 53 THEN DblDrop(d, DblBits(d) - 53, FALSE) ELSE d

\* a + b and a - b of floats a >= b >= 0, and the exact difference
DblAdd(a, b) == DblRound(DblNorm(a[1] + b[1], a[2] + b[2], a[3] + b[3]))
DblExactSub(a, b) == DblNorm(a[1] - b[1], a[2] - b[2], a[3] - b[3])
DblSub(a, b) == DblRound(DblExactSub(a, b))

\* a < b, and Python's min(a, b)
DblLess(a, b) ==
    \/ a[1] < b[1]
    \/ (a[1] = b[1] /\ a[2] < b[2])
    \/ (a[1] = b[1] /\ a[2] = b[2] /\ a[3] < b[3])
DblMin(a, b) == IF DblLess(b, a) THEN b ELSE a

\* n * 2^57 divided by 125, limb by limb: the quotient and the last remainder
DblDiv125(h) ==
    [q |-> <<h \div 125,
             ((h % 125) * Limb) \div 125,
             ((((h % 125) * Limb) % 125) * Limb) \div 125>>,
     r |-> ((((h % 125) * Limb) % 125) * Limb) % 125]

\* the quotient x.q with remainder x.r rounded to the nearest float
DblNearest(x) ==
    IF DblBits(x.q) > 53 THEN DblDrop(x.q, DblBits(x.q) - 53, x.r > 0)
    ELSE IF 2 * x.r > 125 THEN DblNorm(x.q[1], x.q[2], x.q[3] + 1) ELSE x.q

\* the float a literal of n thousandths denotes (n = 0, or |n| >= 4 so that
\* the float is a whole number of units)
DblPos(n) == DblNearest(DblDiv125(n * 512))
Dbl(n) ==
    IF n = 0 THEN DblZero
    ELSE IF n > 0 THEN DblPos(n)
    ELSE <<-DblPos(-n)[1], -DblPos(-n)[2], -DblPos(-n)[3]>>

\* a float d >= 0 in thousandths, rounded: d * 125 / 2^57
Ms(d) == (DblNorm(125 * d[1], 125 * d[2], 125 * d[3])[1] + 256) \div 512

\* x * dt for a time step dt >= 0: an infinite x stays infinite under any
\* dt > 0, however small, and gives nan under dt = 0
TimesDt(x, dt) ==
    IF IsInf(x) THEN (IF dt = DblZero THEN NaN ELSE x) ELSE FMul(x, Ms(dt))

(***************************************************************************)
(* Path (exercise1/rcp/path.py).  Positions, velocities, gains and times   *)
(* are fixed-point values of resolution SCALE; a time step dt and the      *)
(* model time t are floats.                                                *)
(***************************************************************************)
SubStep == 5                     \* min(interval, 0.005)
SubStepDbl == Dbl(SubStep)       \* the float 0.005

(***************************************************************************)
(* The gains k and b are kept at resolution FINE, fine enough to tell a    *)
(* float64 value from the float32 value an NPath array stores.             *)
(***************************************************************************)
PIF == 3141593                   \* math.pi, resolution FINE

\* the product of two values of resolution FINE, operands split as in Mul
MulF(a, b) ==
    LET x  == Abs(a)
        y  == Abs(b)
        xh == x \div SCALE
        xl == x % SCALE
        yh == y \div SCALE
        yl == y % SCALE
    IN  Sgn(a) * Sgn(b) * (xh * yh + Rnd(xh * yl + xl * yh + Rnd(xl * yl, SCALE), SCALE))

\* one step of a search by halving: r + step if its square does not exceed v
SqrtFRefine(v, r, step) ==
    IF MulF(r + step, r + step) <= v THEN r + step ELSE r

\* the search from r on, by steps of step, step / 2, ..., 1
RECURSIVE SqrtFFrom(_, _, _)
SqrtFFrom(v, r, step) ==
    IF step = 0 THEN r
    ELSE IF SqrtFRefine(v, r, step) = r THEN SqrtFFrom(v, r, step \div 2)
    ELSE SqrtFFrom(v, r + step, step \div 2)

\* math.sqrt of a value v >= 0 of resolution FINE: the whole root first, then
\* three more decimals
SqrtF(v) == SqrtFFrom(v, ISqrt(v) * SCALE, 512)

\* the number of fraction bits of the float32 values around x (1 <= |x| < 2^17)
RECURSIVE F32Bits(_, _)
F32Bits(whole, bits) == IF whole < 2 THEN bits ELSE F32Bits(whole \div 2, bits - 1)

\* x * 2^s / FINE rounded to an integer, for 0 <= x < FINE and 6 <= s <= 23
F32Scale(x, s) ==
    LET lo == Min2(s - 6, 9)
        hi == (s - 6) - lo
        t1 == x * (2 ^ lo)
    IN  (t1 \div 15625) * (2 ^ hi) + Rnd((t1 % 15625) * (2 ^ hi), 15625)

\* m * FINE / 2^s rounded to an integer, for 0 <= m < 2^s
F32Unscale(m, s) ==
    LET d == 2 ^ (s - 6)
    IN  (m \div d) * 15625 + Rnd((m % d) * 15625, d)

\* the float32 nearest to x, a value of resolution FINE: what a store into an
\* array of dtype float32 keeps.  0 and values below 1 in magnitude are
\* kept as they are (the model stores none but 0 there).
F32(x) ==
    IF IsNaN(x) \/ IsInf(x) \/ Abs(x) < FINE THEN x
    ELSE LET s == F32Bits(Abs(x) \div FINE, 23)
             m == (Abs(x) \div FINE) * (2 ^ s) + F32Scale(Abs(x) % FINE, s)
         IN  Sgn(x) * ((m \div (2 ^ s)) * FINE + F32Unscale(m % (2 ^ s), s))

FourPiSq == MulF(MulF(4 * FINE, PIF), PIF)

\* Path.__init__
NewPath ==
    [q |-> 0, qd |-> 0, qdd |-> 0, q_d |-> 0, qd_d |-> 0, t |-> DblZero,
     k |-> FourPiSq, b |-> FINE, qd_max |-> 3500 * SCALE, qdd_max |-> 35000 * SCALE]

\* the derivative and its clamp
PathAcc(p) ==
    PyMin(p.qdd_max,
          PyMax(FAdd(FMul(ToMilli(p.k), FSub(p.q_d, p.q)),
                     FMul(ToMilli(p.b), FSub(p.qd_d, p.qd))),
                FNeg(p.qdd_max)))

\* an integration that moves the position with the velocity just updated
PathIntegrateVelocityFirst(p, qdd, dt) ==
    [p EXCEPT !.qdd = qdd,
              !.qd = PyMin(p.qd_max, PyMax(FAdd(@, TimesDt(qdd, dt)), FNeg(p.qd_max))),
              !.q = FAdd(@, TimesDt(PyMin(p.qd_max, PyMax(FAdd(p.qd, TimesDt(qdd, dt)),
                                                          FNeg(p.qd_max))), dt)),
              !.q_d = FAdd(@, TimesDt(p.qd_d, dt)),
              !.t = DblAdd(@, dt)]

\* an integration that leaves the target where it is
PathIntegrateFixedTarget(p, qdd, dt) ==
    [p EXCEPT !.qdd = qdd,
              !.q = FAdd(@, TimesDt(p.qd, dt)),
              !.qd = PyMin(p.qd_max, PyMax(FAdd(@, TimesDt(qdd, dt)), FNeg(p.qd_max))),
              !.t = DblAdd(@, dt)]

\* the integration with the acceleration qdd just computed, and the velocity clamp
PathIntegrate(p, qdd, dt) ==
    [p EXCEPT !.qdd = qdd,
              !.q = FAdd(@, TimesDt(p.qd, dt)),
              !.qd = PyMin(p.qd_max, PyMax(FAdd(@, TimesDt(qdd, dt)), FNeg(p.qd_max))),
              !.q_d = FAdd(@, TimesDt(p.qd_d, dt)),
              !.t = DblAdd(@, dt)]

\* Path.step(dt)
PathStep(p, dt) == PathIntegrate(p, PathAcc(p), dt)

\* an update that runs whole sub-steps only
RECURSIVE PathUpdateWholeSteps(_, _)
PathUpdateWholeSteps(p, interval) ==
    IF ~DblLess(interval, SubStepDbl)
    THEN PathUpdateWholeSteps(PathStep(p, SubStepDbl), DblSub(interval, SubStepDbl))
    ELSE p

\* Path.update_for_interval(interval): while interval > 0.0: ...
RECURSIVE PathUpdate(_, _)
PathUpdate(p, interval) ==
    IF DblLess(DblZero, interval)
    THEN PathUpdate(PathStep(p, DblMin(interval, SubStepDbl)),
                    DblSub(interval, DblMin(interval, SubStepDbl)))
    ELSE p

\* the dt arguments of the step calls one update_for_interval(interval) makes
RECURSIVE StepSizes(_)
StepSizes(interval) ==
    IF DblLess(DblZero, interval)
    THEN <<DblMin(interval, SubStepDbl)>>
         \o StepSizes(DblSub(interval, DblMin(interval, SubStepDbl)))
    ELSE <<>>

\* Path.set_freq_damping(freq, damping)
FreqGain(freq) == MulF(MulF(MulF(MulF(ToFine(freq), ToFine(freq)), 4 * FINE), PIF), PIF)
DampGain(k, damping) == MulF(MulF(2 * FINE, SqrtF(k)), ToFine(damping))
\* a set_freq_damping that also stops the servo
PathSetFreqDampingRestart(p, freq, damping) ==
    [p EXCEPT !.k = FreqGain(freq), !.b = DampGain(FreqGain(freq), damping), !.qd = 0]

PathSetFreqDampingOf(p, freq, damping) ==
    [p EXCEPT !.k = FreqGain(freq), !.b = DampGain(FreqGain(freq), damping)]

(***************************************************************************)
(* NPath (exercise3/rcp/npath.py): one generator per axis                  *)
(***************************************************************************)
NAxes == 2
Axes == 0 .. (NAxes - 1)

\* NPath.__init__
NewNPath ==
    [q |-> [a \in Axes |-> 0], qd |-> [a \in Axes |-> 0], qdd |-> [a \in Axes |-> 0],
     q_d |-> [a \in Axes |-> 0], qd_d |-> [a \in Axes |-> 0],
     q_d_d |-> [a \in Axes |-> 0], speed |-> [a \in Axes |-> Inf],
     k |-> [a \in Axes |-> F32(FourPiSq)], b |-> [a \in Axes |-> F32(FINE)],
     t |-> DblZero, qd_max |-> 3500 * SCALE, qdd_max |-> 35000 * SCALE]

\* the derivative of axis a and its clamp
NPathAcc(p, a) ==
    NpMinimum(p.qdd_max,
              NpMaximum(FAdd(FMul(ToMilli(p.k[a]), FSub(p.q_d[a], p.q[a])),
                             FMul(ToMilli(p.b[a]), FSub(p.qd_d[a], p.qd[a]))),
                        FNeg(p.qdd_max)))

\* a reference step of speed * dt whatever the distance left
RefStepUnbounded(p, a, dt) ==
    FMul(NpSign(FSub(p.q_d_d[a], p.q_d[a])), TimesDt(p.speed[a], dt))

\* d_q_d = q_d_sign * np.minimum(d_q_d_max, q_d_mag) of axis a
RefStep(p, a, dt) ==
    FMul(NpSign(FSub(p.q_d_d[a], p.q_d[a])),
         NpMinimum(TimesDt(p.speed[a], dt), NpAbs(FSub(p.q_d_d[a], p.q_d[a]))))

\* a reference velocity of the signed speed, infinite or not
RefVelocityAlways(p, a) == FMul(NpSign(FSub(p.q_d_d[a], p.q_d[a])), p.speed[a])

\* q_d_sign * np.where(np.isinf(self.speed), self.zeros, self.speed) of axis a
RefVelocity(p, a) ==
    FMul(NpSign(FSub(p.q_d_d[a], p.q_d[a])),
         IF IsInf(p.speed[a]) THEN 0 ELSE p.speed[a])

\* NPath.step(dt)
NPathStep(p, dt) ==
    [p EXCEPT !.qdd = [a \in Axes |-> NPathAcc(p, a)],
              !.q = [a \in Axes |-> FAdd(p.q[a], TimesDt(p.qd[a], dt))],
              !.qd = [a \in Axes |->
                         NpMinimum(p.qd_max,
                                   NpMaximum(FAdd(p.qd[a], TimesDt(NPathAcc(p, a), dt)),
                                             FNeg(p.qd_max)))],
              !.t = DblAdd(@, dt),
              !.q_d = [a \in Axes |-> FAdd(p.q_d[a], RefStep(p, a, dt))],
              !.qd_d = [a \in Axes |-> RefVelocity(p, a)]]

\* an update whose every step is a full sub-step
RECURSIVE NPathUpdateFullSteps(_, _)
NPathUpdateFullSteps(p, interval) ==
    IF DblLess(DblZero, interval)
    THEN NPathUpdateFullSteps(NPathStep(p, SubStepDbl), DblSub(interval, SubStepDbl))
    ELSE p

\* NPath.update_for_interval(interval)
RECURSIVE NPathUpdate(_, _)
NPathUpdate(p, interval) ==
    IF DblLess(DblZero, interval)
    THEN NPathUpdate(NPathStep(p, DblMin(interval, SubStepDbl)),
                     DblSub(interval, DblMin(interval, SubStepDbl)))
    ELSE p

\* a set_speed that stores the speed as it is given
StoredSpeedAsGiven(speed) == speed

\* NPath.set_speed: a speed <= 0 is stored as inf
StoredSpeed(speed) == IF speed <= 0 THEN Inf ELSE speed

(***************************************************************************)
(* SimWinch (exercise4/rcp/sim.py): a list of Path objects, one per axis   *)
(***************************************************************************)
\* SimWinch.__init__
NewWinch == [a \in Axes |-> NewPath]

\* SimWinch.update_for_interval(interval)
WinchUpdate(w, interval) == [a \in Axes |-> PathUpdate(w[a], interval)]

(***************************************************************************)
(* Calls on a path generator.  last tells which object the run drives,     *)
(* the call made last, its arguments, the object as it was before the      *)
(* call, and how many calls were made.                                     *)
(***************************************************************************)
MaxCalls == 4                    \* calls on the path generator in one run

Positions == {50 * SCALE, 2000 * SCALE}
Offsets == {-30 * SCALE}
Velocities == {30 * SCALE}
Speeds == {0, 100 * SCALE}
FreqDampings == {<<SCALE, SCALE>>, <<2 * SCALE, SCALE \div 2>>}
StepDts == {0, SubStep, SCALE}
Intervals == {-3, 0, 12, 20, 50}
AxisArgs == {{a} : a \in Axes}
AxisLists == {{0}, Axes}
\* a list of offsets, one per axis, for a command on the list of all axes
OffsetLists == {[a \in Axes |-> IF a = 0 THEN -30 * SCALE ELSE 30 * SCALE]}

NoPathCall == [obj |-> "none", op |-> "none", count |-> 0]

(***************************************************************************)
(* show1: MotionPrimitives.__init__, Script.__init__ and the state of the  *)
(* script thread before it is started.  Frequencies, ratios, tempo and     *)
(* magnitude have resolution SCALE; times are counted in milliseconds and  *)
(* in frames of frame_interval.                                            *)
(***************************************************************************)
NoAttribute == [set |-> FALSE]

\* the pose table __init__ reads from pose_csv_path: a row gives a name and
\* one whole number of steps per winch
PoseNames == {"reset", "lead1", "lead2", "lead3"}
PoseRow(p0, p1) == [a \in Axes |-> IF a = 0 THEN p0 ELSE IF a = 1 THEN p1 ELSE 0]
RestPoses ==
    [n \in PoseNames |->
        CASE n = "reset" -> PoseRow(0, 0)
          [] n = "lead1" -> PoseRow(20, 0)
          [] n = "lead2" -> PoseRow(20, 20)
          [] n = "lead3" -> PoseRow(0, 20)]
NearPoses == [RestPoses EXCEPT !["reset"] = PoseRow(3, 4)]
NearerPoses == [RestPoses EXCEPT !["reset"] = PoseRow(2, 4)]
PoseTables == {RestPoses, NearPoses, NearerPoses}

NewPrimitives(poses) ==
    [tempo |-> 60 * SCALE, magnitude |-> SCALE, frequency |-> SCALE, damping_ratio |-> SCALE,
     damping |-> NoAttribute,
     non_zero_velocity |-> FALSE, non_zero_velocity_timeout |-> 0,
     random_mode |-> FALSE, random_mode_timer |-> DblZero,
     poses |-> poses]

\* a run of no frames and no commands
NoRun == [frames |-> 0, moments |-> {}, commands |-> 0]

\* no wait_until_stopped has returned yet
NoWait == [set |-> FALSE]

NewShowWith(poses) ==
    [input |-> <<>>,             \* script.input
     output |-> <<>>,            \* script.output
     at |-> -1,                  \* the thread's place: -1 not running yet, 0 in the top
                                 \* loop of script_task, n at statement n of sequence()
     waiting |-> FALSE,          \* inside event_wait
     deadline |-> 0,             \* start + timeout of the event_wait, in frames
     primitives |-> NewPrimitives(poses),
     now |-> 0,                  \* frame_timer_tick calls begun so far
     polled |-> FALSE,           \* inside frame_timer_tick, poll_script_queues done
     user |-> 0,                 \* commands and remote messages received so far
     run |-> NoRun,              \* the frames, moments and commands the run follows
     sent |-> 0,                 \* cues the script has put on its output
     applied |-> 0,              \* cues of the script process_cue has been given
     after |-> <<"none">>,       \* the call on MotionPrimitives made last, with its arguments
     stepped |-> 0,              \* simulator updates since the last of them
     status |-> "none",          \* the status message sent last
     elapsed |-> 0,              \* interval accumulated since it was sent, in ms
     ended |-> NoWait,           \* how the last wait_until_stopped returned
     stopped_at |-> 0]           \* the statement the last ScriptStopException was raised in

NewShow == NewShowWith(RestPoses)

PathInit ==
    /\ path = NewPath
    /\ npath = NewNPath
    /\ winch = NewWinch
    /\ show = NewShow
    /\ last = NoPathCall

PathReady == last.obj = "path" /\ last.count < MaxCalls
PathLast(op, args) ==
    [obj |-> "path", op |-> op, args |-> args, before |-> path, count |-> last.count + 1]

PathSetTarget(position) ==
    /\ PathReady
    /\ path' = [path EXCEPT !.q_d = position]
    /\ last' = PathLast("set_target", [position |-> position])
    /\ UNCHANGED <<npath, winch, show, pendVars>>

PathIncrementTarget(offset) ==
    /\ PathReady
    /\ path' = [path EXCEPT !.q_d = FAdd(@, offset)]
    /\ last' = PathLast("increment_target", [offset |-> offset])
    /\ UNCHANGED <<npath, winch, show, pendVars>>

PathSetVelocity(velocity) ==
    /\ PathReady
    /\ path' = [path EXCEPT !.qd_d = velocity]
    /\ last' = PathLast("set_velocity", [velocity |-> velocity])
    /\ UNCHANGED <<npath, winch, show, pendVars>>

PathSetFreqDamping(freq, damping) ==
    /\ PathReady
    /\ path' = PathSetFreqDampingOf(path, freq, damping)
    /\ last' = PathLast("set_freq_damping", [freq |-> freq, damping |-> damping])
    /\ UNCHANGED <<npath, winch, show, pendVars>>

PathStepCall(dt) ==
    /\ PathReady
    /\ path' = PathStep(path, Dbl(dt))
    /\ last' = PathLast("step", [dt |-> dt])
    /\ UNCHANGED <<npath, winch, show, pendVars>>

PathUpdateForInterval(interval) ==
    /\ PathReady
    /\ path' = PathUpdate(path, Dbl(interval))
    /\ last' = PathLast("update_for_interval",
                         [interval |-> interval, dts |-> StepSizes(Dbl(interval))])
    /\ UNCHANGED <<npath, winch, show, pendVars>>

NPathReady == last.obj = "npath" /\ last.count < MaxCalls
NPathLast(op, args) ==
    [obj |-> "npath", op |-> op, args |-> args, before |-> npath, count |-> last.count + 1]

\* an index assignment that writes every entry, listed or not
AssignAll(v, axis, x) == [a \in Axes |-> x[a]]

\* v[axis] = x for an axis list: the listed entries become x[a], the others stay
Assign(v, axis, x) == [a \in Axes |-> IF a \in axis THEN x[a] ELSE v[a]]

\* the commands of NPath as functions of the object
NPathSetTargetOf(p, axis, position) ==
    [p EXCEPT !.q_d_d = Assign(@, axis, [a \in Axes |-> position])]
NPathIncrementTargetOf(p, axis, offset) ==
    [p EXCEPT !.q_d_d = Assign(@, axis, [a \in Axes |-> FAdd(p.q_d_d[a], offset)])]
NPathIncrementReferenceOf(p, axis, offset) ==
    [p EXCEPT !.q_d = Assign(@, axis, [a \in Axes |-> FAdd(p.q_d[a], offset)])]
NPathSetSpeedOf(p, axis, speed) ==
    [p EXCEPT !.speed = Assign(@, axis, [a \in Axes |-> StoredSpeed(speed)])]
NPathSetFreqDampingOf(p, axis, freq, damping) ==
    [p EXCEPT !.k = Assign(@, axis, [a \in Axes |-> F32(FreqGain(freq))]),
              !.b = Assign(@, axis, [a \in Axes |-> F32(DampGain(FreqGain(freq), damping))])]

NPathSetTarget(axis, position) ==
    /\ NPathReady
    /\ npath' = NPathSetTargetOf(npath, axis, position)
    /\ last' = NPathLast("set_target", [axis |-> axis, position |-> position])
    /\ UNCHANGED <<path, winch, show, pendVars>>

NPathIncrementTarget(axis, offset) ==
    /\ NPathReady
    /\ npath' = NPathIncrementTargetOf(npath, axis, offset)
    /\ last' = NPathLast("increment_target", [axis |-> axis, offset |-> offset])
    /\ UNCHANGED <<path, winch, show, pendVars>>

NPathIncrementReference(axis, offset) ==
    /\ NPathReady
    /\ npath' = NPathIncrementReferenceOf(npath, axis, offset)
    /\ last' = NPathLast("increment_reference", [axis |-> axis, offset |-> offset])
    /\ UNCHANGED <<path, winch, show, pendVars>>

NPathSetSpeed(axis, speed) ==
    /\ NPathReady
    /\ npath' = NPathSetSpeedOf(npath, axis, speed)
    /\ last' = NPathLast("set_speed", [axis |-> axis, speed |-> speed])
    /\ UNCHANGED <<path, winch, show, pendVars>>

NPathSetFreqDamping(axis, freq, damping) ==
    /\ NPathReady
    /\ npath' = NPathSetFreqDampingOf(npath, axis, freq, damping)
    /\ last' = NPathLast("set_freq_damping",
                          [axis |-> axis, freq |-> freq, damping |-> damping])
    /\ UNCHANGED <<path, winch, show, pendVars>>

NPathStepCall(dt) ==
    /\ NPathReady
    /\ npath' = NPathStep(npath, Dbl(dt))
    /\ last' = NPathLast("step", [dt |-> dt])
    /\ UNCHANGED <<path, winch, show, pendVars>>

NPathUpdateForInterval(interval) ==
    /\ NPathReady
    /\ npath' = NPathUpdate(npath, Dbl(interval))
    /\ last' = NPathLast("update_for_interval",
                          [interval |-> interval, dts |-> StepSizes(Dbl(interval))])
    /\ UNCHANGED <<path, winch, show, pendVars>>

WinchReady == last.obj = "winch" /\ last.count < MaxCalls
WinchLast(op, args) ==
    [obj |-> "winch", op |-> op, args |-> args, before |-> winch, count |-> last.count + 1]

\* the commands of SimWinch as functions of the list of paths.  set_target,
\* increment_target and set_velocity take one axis number with one value, or
\* a list of axes with the list of their values (x[a] is the one paired with
\* a); set_freq_damping puts the same pair on every listed axis
WinchSetTargetOf(w, axis, position) ==
    [a \in Axes |-> IF a \in axis THEN [w[a] EXCEPT !.q_d = position[a]] ELSE w[a]]
WinchIncrementTargetOf(w, axis, offset) ==
    [a \in Axes |-> IF a \in axis THEN [w[a] EXCEPT !.q_d = FAdd(@, offset[a])] ELSE w[a]]
WinchSetVelocityOf(w, axis, velocity) ==
    [a \in Axes |-> IF a \in axis THEN [w[a] EXCEPT !.qd_d = velocity[a]] ELSE w[a]]
WinchSetFreqDampingOf(w, axis, freq, ratio) ==
    [a \in Axes |-> IF a \in axis THEN PathSetFreqDampingOf(w[a], freq, ratio) ELSE w[a]]

WinchSetTarget(axis, position) ==
    /\ WinchReady
    /\ winch' = WinchSetTargetOf(winch, axis, position)
    /\ last' = WinchLast("set_target", [axis |-> axis, position |-> position])
    /\ UNCHANGED <<path, npath, show, pendVars>>

WinchIncrementTarget(axis, offset) ==
    /\ WinchReady
    /\ winch' = WinchIncrementTargetOf(winch, axis, offset)
    /\ last' = WinchLast("increment_target", [axis |-> axis, offset |-> offset])
    /\ UNCHANGED <<path, npath, show, pendVars>>

WinchSetVelocity(axis, velocity) ==
    /\ WinchReady
    /\ winch' = WinchSetVelocityOf(winch, axis, velocity)
    /\ last' = WinchLast("set_velocity", [axis |-> axis, velocity |-> velocity])
    /\ UNCHANGED <<path, npath, show, pendVars>>

WinchSetFreqDamping(axis, freq, ratio) ==
    /\ WinchReady
    /\ winch' = WinchSetFreqDampingOf(winch, axis, freq, ratio)
    /\ last' = WinchLast("set_freq_damping", [axis |-> axis, freq |-> freq, damping |-> ratio])
    /\ UNCHANGED <<path, npath, show, pendVars>>

WinchUpdateForInterval(interval) ==
    /\ WinchReady
    /\ winch' = WinchUpdate(winch, Dbl(interval))
    /\ last' = WinchLast("update_for_interval",
                          [interval |-> interval, dts |-> StepSizes(Dbl(interval))])
    /\ UNCHANGED <<path, npath, show, pendVars>>

(***************************************************************************)
(* DoublePendulumSimulator.__init__, reset, connect_controller             *)
(***************************************************************************)
\* a reset that binds state to the controller's own initial_state array
ResetFieldsNoCopy(k, c) ==
    [t |-> 0,
     origin |-> Zero2,
     state |-> IF k # "none" THEN c.initial_state ELSE Zero4,
     alias |-> k # "none",
     tau |-> Zero2,
     dydt |-> Uninit4]

\* the fields reset() assigns for a simulator whose controller (if any, k # "none")
\* has the fields c
ResetFields(k, c) ==
    [t |-> 0,
     origin |-> Zero2,
     state |-> IF k # "none" THEN c.initial_state ELSE Zero4,
     alias |-> FALSE,                       \* .copy() / np.array: a new array
     tau |-> Zero2,
     dydt |-> Uninit4]

ApplyReset(i, k) ==
    LET r == ResetFields(k, ctl[i])
    IN  /\ t' = [t EXCEPT ![i] = r.t]
        /\ origin' = [origin EXCEPT ![i] = r.origin]
        /\ state' = [state EXCEPT ![i] = r.state]
        /\ stateAlias' = [stateAlias EXCEPT ![i] = r.alias]
        /\ tau' = [tau EXCEPT ![i] = r.tau]
        /\ dydt' = [dydt EXCEPT ![i] = r.dydt]

Init ==
    /\ kind \in Kinds
    /\ control = [i \in Sims |-> "none"]
    /\ t = [i \in Sims |-> 0]
    /\ state = [i \in Sims |-> Zero4]
    /\ tau = [i \in Sims |-> Zero2]
    /\ dydt = [i \in Sims |-> Uninit4]
    /\ origin = [i \in Sims |-> Zero2]
    /\ dyn = [i \in Sims |-> DefaultDynamics]
    /\ stateAlias = [i \in Sims |-> FALSE]
    /\ ctl = [i \in Sims |-> NewController(kind, i)]
    /\ pc = "idle"
    /\ cur = 0
    /\ delta_t = 0
    /\ stp = NoStep
    /\ steps = [i \in Sims |-> 0]
    /\ ret = NoCall
    /\ PathInit

\* connect_controller(controller): attach, then reset
ConnectController(i) ==
    /\ pc = "idle"
    /\ control[i] = "none"
    /\ control' = [control EXCEPT ![i] = kind]
    /\ ApplyReset(i, kind)
    /\ ret' = [op |-> "connect_controller", sim |-> i]
    /\ UNCHANGED <<kind, dyn, ctl, pc, cur, delta_t, stp, steps, pathVars>>

\* reset()
Reset(i) ==
    /\ pc = "idle"
    /\ ApplyReset(i, control[i])
    /\ ret' = [op |-> "reset", sim |-> i]
    /\ UNCHANGED <<kind, control, dyn, ctl, pc, cur, delta_t, stp, steps, pathVars>>

\* MainApp.__init__: simulator.origin = np.array((2.2*i, 0))
SetOrigin(i) ==
    /\ pc = "idle"
    /\ control[i] # "none"
    /\ origin' = [origin EXCEPT ![i] = <<2200 * i, 0>>]
    /\ UNCHANGED <<kind, control, t, state, tau, dydt, dyn, stateAlias, ctl,
                   pc, cur, delta_t, stp, steps, ret, pathVars>>

(***************************************************************************)
(* DoublePendulumSimulator.timer_tick, one action per statement of the     *)
(* loop.  The interpreter runs the call to its end before anything else    *)
(* happens: while pc # "idle" only the next statement is enabled.          *)
(***************************************************************************)
\* the model stops issuing calls once MaxSteps calls of compute_control were made
Budget == steps[0] + steps[1] < MaxSteps

\* timer_tick(delta_t) is entered on simulator i
TimerTickCall(i, d) ==
    /\ pc = "idle"
    /\ cur' = i
    /\ delta_t' = d
    /\ pc' = "while"
    /\ stp' = [NoStep EXCEPT !.tick = [delta_t |-> d, t0 |-> t[i], state0 |-> state[i],
                                       n |-> 0]]
    /\ ret' = NoCall
    /\ UNCHANGED <<kind, control, t, state, tau, dydt, origin, dyn, stateAlias, ctl, steps>>

TimerTick(i, d) ==
    /\ Budget
    /\ TimerTickCall(i, d)
    /\ UNCHANGED pathVars

\* a loop test that lets only whole steps through
WhileCondWholeStep(d) == d >= DTF

\* while delta_t > 0:
WhileCond(d) == d > 0

WhileTest ==
    /\ pc = "while"
    /\ IF WhileCond(delta_t)
       THEN /\ pc' = "control"
            /\ stp' = [calls |-> 0, events |-> <<>>, tick |-> stp.tick,
                        t0 |-> t[cur], state0 |-> state[cur]]
            /\ UNCHANGED <<delta_t, cur>>
            /\ UNCHANGED ret
       ELSE \* the call returns: its locals are gone
            /\ pc' = "idle"
            /\ stp' = NoStep
            /\ delta_t' = 0
            /\ cur' = 0
            /\ ret' = [op |-> "timer_tick", sim |-> cur, delta_t |-> stp.tick.delta_t,
                       t0 |-> stp.tick.t0, state0 |-> stp.tick.state0, n |-> stp.tick.n]
    /\ UNCHANGED <<kind, control, t, state, tau, dydt, origin, dyn, stateAlias, ctl,
                   steps, pathVars>>

\* world.dblpend_endpoint(0)
WorldEndpoint0 ==
    ForwardKinematics(dyn[0], origin[0], <<ToMilli(state[0][1]), ToMilli(state[0][2])>>).end

\* an in-place write to the array self.state also changes control.initial_state
\* when the two names are bound to the same array
WriteThrough(i, c, st) ==
    IF stateAlias[i] THEN [c EXCEPT !.initial_state = st] ELSE c

\* a step that skips the call when there is no controller and goes on with
\* the torques it has
StepControlOptional ==
    /\ pc = "control"
    /\ control[cur] = "none"
    /\ pc' = "deriv"
    /\ stp' = [calls |-> stp.calls, events |-> Append(stp.events, "control"),
                tick |-> stp.tick, t0 |-> stp.t0, state0 |-> stp.state0,
                ctl_t |-> t[cur], ctl_dt |-> DTF, ctl_state |-> state[cur],
                ctl_tau_in |-> tau[cur],
                out |-> Enter(ctl[cur], state[cur], tau[cur])]
    /\ steps' = [steps EXCEPT ![cur] = @ + 1]
    /\ UNCHANGED <<kind, control, t, state, tau, ctl, dydt, origin, dyn, stateAlias, cur,
                   delta_t, ret, pathVars>>

\* a compute_control step on simulators that all hold one and the same tau array
StepControlSharedTau ==
    /\ pc = "control"
    /\ control[cur] # "none"
    /\ stp' = [calls |-> stp.calls + 1, events |-> Append(stp.events, "control"),
                tick |-> stp.tick, t0 |-> stp.t0, state0 |-> stp.state0,
                ctl_t |-> t[cur], ctl_dt |-> DTF, ctl_state |-> state[cur],
                ctl_tau_in |-> tau[cur],
                out |-> ComputeControl(control[cur], ctl[cur], cur, t[cur], DTF,
                                       state[cur], tau[cur], WorldEndpoint0,
                                       dyn[cur], origin[cur])]
    /\ tau' = [i \in Sims |-> stp'.out.tau]
    /\ state' = [state EXCEPT ![cur] = stp'.out.state]
    /\ ctl' = [ctl EXCEPT ![cur] = WriteThrough(cur, stp'.out.ctl, stp'.out.state)]
    /\ pc' = IF stp'.out.raised THEN "raised" ELSE "deriv"
    /\ steps' = [steps EXCEPT ![cur] = @ + 1]
    /\ UNCHANGED <<kind, control, t, dydt, origin, dyn, stateAlias, cur, delta_t,
                   ret, pathVars>>

\* self.control.compute_control(self.t, self.dt, self.state, self.tau); the
\* outcome of the call is kept in stp.out
StepControl ==
    /\ pc = "control"
    /\ IF control[cur] = "none"
       THEN \* None has no attribute compute_control: the call raises
            /\ pc' = "raised"
            /\ stp' = [stp EXCEPT !.events = Append(@, "raise")]
            /\ UNCHANGED <<tau, state, ctl, steps>>
       ELSE /\ stp' = [calls |-> stp.calls + 1, events |-> Append(stp.events, "control"),
                       tick |-> stp.tick, t0 |-> stp.t0, state0 |-> stp.state0,
                       ctl_t |-> t[cur], ctl_dt |-> DTF, ctl_state |-> state[cur],
                       ctl_tau_in |-> tau[cur],
                       out |-> ComputeControl(control[cur], ctl[cur], cur, t[cur], DTF,
                                              state[cur], tau[cur], WorldEndpoint0,
                                              dyn[cur], origin[cur])]
            /\ tau' = [tau EXCEPT ![cur] = stp'.out.tau]
            /\ state' = [state EXCEPT ![cur] = stp'.out.state]
            /\ ctl' = [ctl EXCEPT ![cur] = WriteThrough(cur, stp'.out.ctl, stp'.out.state)]
            /\ pc' = IF stp'.out.raised THEN "raised" ELSE "deriv"
            /\ steps' = [steps EXCEPT ![cur] = @ + 1]
    /\ UNCHANGED <<kind, control, t, dydt, origin, dyn, stateAlias, cur, delta_t,
                   ret, pathVars>>

\* qd = self.deriv()
StepDeriv ==
    /\ pc = "deriv"
    /\ dydt' = [dydt EXCEPT ![cur] = Deriv(dyn[cur], state[cur], tau[cur])]
    /\ pc' = "euler"
    /\ stp' = [stp EXCEPT !.events = Append(@, "deriv")]
                  @@ [deriv_state |-> state[cur], deriv_tau |-> tau[cur]]
    /\ UNCHANGED <<kind, control, t, state, tau, origin, dyn, stateAlias, ctl, cur,
                   delta_t, steps, ret, pathVars>>

\* self.state = self.state + self.dt * qd ; delta_t -= self.dt
StepEuler ==
    /\ pc = "euler"
    /\ state' = [state EXCEPT ![cur] = EulerStep(state[cur], dydt[cur])]
    /\ stateAlias' = [stateAlias EXCEPT ![cur] = FALSE]
    /\ delta_t' = delta_t - DTF
    /\ pc' = "advance"
    /\ stp' = [stp EXCEPT !.events = Append(@, "euler")]
    /\ UNCHANGED <<kind, control, t, tau, dydt, origin, dyn, ctl, cur, steps, ret, pathVars>>

\* self.t += self.dt
StepAdvance ==
    /\ pc = "advance"
    /\ t' = [t EXCEPT ![cur] = @ + DTF]
    /\ pc' = "while"
    /\ stp' = [stp EXCEPT !.events = Append(@, "advance"), !.tick.n = @ + 1]
    /\ UNCHANGED <<kind, control, state, tau, dydt, origin, dyn, stateAlias, ctl, cur,
                   delta_t, steps, ret, pathVars>>

\* an exception leaves timer_tick: the call ends where it is
Unwind ==
    /\ pc = "raised"
    /\ pc' = "idle"
    /\ stp' = NoStep
    /\ delta_t' = 0
    /\ cur' = 0
    /\ UNCHANGED <<kind, control, t, state, tau, dydt, origin, dyn, stateAlias, ctl,
                   steps, ret, pathVars>>

(***************************************************************************)
(* Direct calls, between ticks, of the kinematics and of compute_control   *)
(***************************************************************************)
\* forwardKinematics(q); src is <<target>> when q is the first solution of the
\* endpointIK(target) call just made, <<>> otherwise
CallFK(i, q, src) ==
    /\ pc = "idle"
    /\ ret' = [op |-> "forwardKinematics", sim |-> i, q |-> q, src |-> src,
               out |-> ForwardKinematics(dyn[i], origin[i], q)]
    /\ origin' = [origin EXCEPT ![i] = ret'.out.origin]
    /\ dyn' = [dyn EXCEPT ![i] = ret'.out.dyn]
    /\ UNCHANGED <<kind, control, t, state, tau, dydt, stateAlias, ctl, pc, cur,
                   delta_t, stp, steps, pathVars>>

\* forwardKinematics(endpointIK(target)[0]) after the call ret reports
ChainFK ==
    /\ ret.op = "endpointIK"
    /\ ~ret.out.raised
    /\ CallFK(ret.sim, ret.out.soln1, <<ret.target>>)

\* endpointIK(target)
CallIK(i, target) ==
    /\ pc = "idle"
    /\ ret' = [op |-> "endpointIK", sim |-> i, target |-> target,
               out |-> EndpointIK(dyn[i], origin[i], target)]
    /\ origin' = [origin EXCEPT ![i] = ret'.out.origin]
    /\ dyn' = [dyn EXCEPT ![i] = ret'.out.dyn]
    /\ UNCHANGED <<kind, control, t, state, tau, dydt, stateAlias, ctl, pc, cur,
                   delta_t, stp, steps, pathVars>>

\* controller.compute_control(tArg, dtArg, st, tq) on arrays of the caller's own,
\* the controller's integral gains set to ki for the call
CallComputeControl(i, tArg, dtArg, st, tq, ki) ==
    /\ pc = "idle"
    /\ control[i] # "none"
    /\ Budget
    /\ steps' = [steps EXCEPT ![i] = @ + 1]
    /\ ret' = [op |-> "compute_control", sim |-> i, t |-> tArg, dt |-> dtArg,
               state_in |-> st, tau_in |-> tq, ki |-> ki,
               out |-> ComputeControl(control[i], [ctl[i] EXCEPT !.gains.ki = ki], i,
                                      tArg, dtArg, st, tq, WorldEndpoint0,
                                      dyn[i], origin[i])]
    /\ ctl' = [ctl EXCEPT ![i] = [ret'.out.ctl EXCEPT !.gains.ki = ctl[i].gains.ki]]
    /\ UNCHANGED <<kind, control, t, state, tau, dydt, origin, dyn, stateAlias, pc, cur,
                   delta_t, stp, pathVars>>

\* world.dblpend_endpoint(i): forwardKinematics(state[0:2]) of simulator i
DblpendEndpoint(i) ==
    CallFK(i, <<ToMilli(state[i][1]), ToMilli(state[i][2])>>, <<>>)

Next ==
    \/ \E i \in Sims : ConnectController(i)
    \/ \E i \in Sims : Reset(i)
    \/ \E i \in Sims : SetOrigin(i)
    \/ \E i \in Sims, d \in Deltas : TimerTick(i, d)
    \/ WhileTest
    \/ StepControl
    \/ StepDeriv
    \/ StepEuler
    \/ StepAdvance
    \/ Unwind
    \/ \E i \in Sims : DblpendEndpoint(i)
    \/ \E i \in Sims : CallIK(i, <<SCALE, -SCALE>>)

Spec == Init /\ [][Next]_vars

(***************************************************************************)
(* The controllers called directly, on arrays of the caller's own, and by  *)
(* ticks of one inner step                                                 *)
(***************************************************************************)
NextCtl ==
    \/ \E i \in Sims : ConnectController(i)
    \/ \E i \in Sims, a \in ProbeArgs : CallComputeControl(i, a.t, a.dt, a.st, a.tq, a.ki)
    \/ \E i \in Sims : TimerTick(i, DTF)
    \/ WhileTest
    \/ StepControl
    \/ StepDeriv
    \/ StepEuler
    \/ StepAdvance
    \/ Unwind

SpecCtl == Init /\ [][NextCtl]_vars

(***************************************************************************)
(* The kinematics called directly, on models of several link lengths       *)
(***************************************************************************)
InitKin ==
    /\ kind = "pd"
    /\ control = [i \in Sims |-> "none"]
    /\ t = [i \in Sims |-> 0]
    /\ state = [i \in Sims |-> Zero4]
    /\ tau = [i \in Sims |-> Zero2]
    /\ dydt = [i \in Sims |-> Uninit4]
    /\ \E o \in KinOrigins : origin = [i \in Sims |-> o]
    /\ \E l1 \in LinkLengths, l2 \in LinkLengths :
          dyn = [i \in Sims |-> DynamicsWith(l1, l2)]
    /\ stateAlias = [i \in Sims |-> FALSE]
    /\ ctl = [i \in Sims |-> NewController(kind, i)]
    /\ pc = "idle"
    /\ cur = 0
    /\ delta_t = 0
    /\ stp = NoStep
    /\ steps = [i \in Sims |-> 0]
    /\ ret = NoCall
    /\ PathInit

NextKin ==
    \/ \E q \in FKArgs : CallFK(0, q, <<>>)
    \/ ChainFK
    \/ \E target \in IKTargets : CallIK(0, target)

SpecKin == InitKin /\ [][NextKin]_vars

(***************************************************************************)
(* MainApp.frame_timer_tick: every simulator is ticked by frame_interval.  *)
(* Each frame is run twice from the same start, the second time with the   *)
(* simulators in the opposite order, and both outcomes are kept in last.   *)
(***************************************************************************)
MaxFrames == 2                   \* frames in one run
FrameInterval == 40 * DTF        \* self.frame_interval = 0.040 s, microseconds

\* the fields of the simulators and of their controllers
Snapshot ==
    [t |-> t, state |-> state, tau |-> tau, dydt |-> dydt, stateAlias |-> stateAlias,
     ctl |-> ctl, steps |-> steps]

\* the k-th simulator of the running pass
FrameSim(k) == IF last.pass = 1 THEN last.order[k] ELSE last.order[NSim + 1 - k]

FrameBegin(order) ==
    /\ pc = "idle"
    /\ last.phase = "idle"
    /\ last.frames < MaxFrames
    /\ last' = [obj |-> "frame", phase |-> "run", pass |-> 1, order |-> order, k |-> 0,
                start |-> Snapshot, first |-> Snapshot, second |-> Snapshot,
                frames |-> last.frames + 1]
    /\ UNCHANGED <<pendVars, path, npath, winch, show>>

\* simulator.timer_tick(self.frame_interval) for the next simulator
FrameTick ==
    /\ last.phase = "run"
    /\ last.k < NSim
    /\ TimerTickCall(FrameSim(last.k + 1), FrameInterval)
    /\ last' = [last EXCEPT !.k = @ + 1]
    /\ UNCHANGED <<path, npath, winch, show>>

\* the first pass is over: its outcome is kept and the frame starts again
FrameReplay ==
    /\ pc = "idle"
    /\ last.phase = "run" /\ last.pass = 1 /\ last.k = NSim
    /\ last' = [last EXCEPT !.pass = 2, !.k = 0, !.first = Snapshot]
    /\ t' = last.start.t
    /\ state' = last.start.state
    /\ tau' = last.start.tau
    /\ dydt' = last.start.dydt
    /\ stateAlias' = last.start.stateAlias
    /\ ctl' = last.start.ctl
    /\ steps' = last.start.steps
    /\ UNCHANGED <<kind, control, origin, dyn, pc, cur, delta_t, stp, ret, path, npath, winch, show>>

FrameEnd ==
    /\ pc = "idle"
    /\ last.phase = "run" /\ last.pass = 2 /\ last.k = NSim
    /\ last' = [last EXCEPT !.phase = "idle", !.second = Snapshot]
    /\ UNCHANGED <<pendVars, path, npath, winch, show>>

\* the application after MainApp.__init__: every simulator has its controller
\* and its origin
InitFrame ==
    /\ kind \in Kinds
    /\ control = [i \in Sims |-> kind]
    /\ t = [i \in Sims |-> 0]
    /\ ctl = [i \in Sims |-> NewController(kind, i)]
    /\ state = [i \in Sims |-> ResetFields(kind, ctl[i]).state]
    /\ tau = [i \in Sims |-> Zero2]
    /\ dydt = [i \in Sims |-> Uninit4]
    /\ origin = [i \in Sims |-> <<2200 * i, 0>>]
    /\ dyn = [i \in Sims |-> DefaultDynamics]
    /\ stateAlias = [i \in Sims |-> FALSE]
    /\ pc = "idle"
    /\ cur = 0
    /\ delta_t = 0
    /\ stp = NoStep
    /\ steps = [i \in Sims |-> 0]
    /\ ret = NoCall
    /\ path = NewPath
    /\ npath = NewNPath
    /\ winch = NewWinch
    /\ show = NewShow
    /\ last = [obj |-> "frame", phase |-> "idle", pass |-> 1, order |-> <<0, 1>>, k |-> 0,
               start |-> Snapshot, first |-> Snapshot, second |-> Snapshot, frames |-> 0]

NextFrame ==
    \/ \E order \in {<<0, 1>>, <<1, 0>>} : FrameBegin(order)
    \/ FrameTick
    \/ FrameReplay
    \/ FrameEnd
    \/ WhileTest
    \/ StepControl
    \/ StepDeriv
    \/ StepEuler
    \/ StepAdvance

SpecFrame == InitFrame /\ [][NextFrame]_vars

(***************************************************************************)
(* A long run of frames: frame_timer_tick is called again and again on an  *)
(* application with the PD base class or the keyframe controller, whose    *)
(* poses are the initial ones or come from the configuration file.         *)
(***************************************************************************)
MaxRunFrames == 375              \* 15 s of simulated time

\* a [keyframes] section with the four poses (q0, q1), resolution SCALE
ConfiguredKeyframes == [f \in 0 .. (NumKeyframes - 1) |-> <<500 * (f + 1), -300 * f>>]

\* dblpend_keyframes.PendulumController.apply_configuration
ApplyConfiguration(c, config) ==
    IF "keyframes" \in DOMAIN config
    THEN [c EXCEPT !.keyframes = [f \in DOMAIN @ |-> config.keyframes[f]]]
    ELSE c

InitRun ==
    /\ kind \in {"pd", "keyframes"}
    /\ control = [i \in Sims |-> kind]
    /\ t = [i \in Sims |-> 0]
    /\ \E config \in {[other |-> 0], [keyframes |-> ConfiguredKeyframes]} :
            ctl = [i \in Sims |-> IF kind = "keyframes"
                                  THEN ApplyConfiguration(NewController(kind, i), config)
                                  ELSE NewController(kind, i)]
    /\ state = [i \in Sims |-> Zero4]
    /\ tau = [i \in Sims |-> Zero2]
    /\ dydt = [i \in Sims |-> Uninit4]
    /\ origin = [i \in Sims |-> <<2200 * i, 0>>]
    /\ dyn = [i \in Sims |-> DefaultDynamics]
    /\ stateAlias = [i \in Sims |-> FALSE]
    /\ pc = "idle"
    /\ cur = 0
    /\ delta_t = 0
    /\ stp = NoStep
    /\ steps = [i \in Sims |-> 0]
    /\ ret = NoCall
    /\ path = NewPath
    /\ npath = NewNPath
    /\ winch = NewWinch
    /\ show = NewShow
    /\ last = [obj |-> "run", frames |-> 0]

\* simulator.timer_tick(self.frame_interval) on the simulator that is observed
RunTick ==
    /\ last.obj = "run"
    /\ last.frames < MaxRunFrames
    /\ TimerTickCall(0, FrameInterval)
    /\ last' = [last EXCEPT !.frames = @ + 1]
    /\ UNCHANGED <<path, npath, winch, show>>

NextRun ==
    \/ RunTick
    \/ WhileTest
    \/ StepControl
    \/ StepDeriv
    \/ StepEuler
    \/ StepAdvance

SpecRun == InitRun /\ [][NextRun]_vars

(***************************************************************************)
(* The swing-up controller: compute_control is called directly on states  *)
(* on and around the borders of its three bands, and the application runs *)
(* its first frames from rest.                                             *)
(***************************************************************************)
MaxSwingFrames == 3              \* frames in one run

\* states (q0, q1, qd0, qd1) inside, on the border of and outside the bands
SwingStates ==
    {Zero4,
     <<9999, 0, -9999, 0>>, <<10000, 0, 0, 0>>, <<0, 0, 10000, 50000>>,
     <<-10000, 300000, 9999, -100000>>, <<5000, 0, 200000, -100000>>,
     <<499999, 0, -300000, 100000>>, <<500000, 0, -300000, 100000>>,
     <<-500000, 0, 200000, 0>>, <<600000, -300000, 200000, -100000>>}

InitSwing ==
    /\ kind = "swingup"
    /\ control = [i \in Sims |-> kind]
    /\ t = [i \in Sims |-> 0]
    /\ ctl = [i \in Sims |-> NewController(kind, i)]
    /\ state = [i \in Sims |-> Zero4]
    /\ tau = [i \in Sims |-> Zero2]
    /\ dydt = [i \in Sims |-> Uninit4]
    /\ origin = [i \in Sims |-> <<2200 * i, 0>>]
    /\ dyn = [i \in Sims |-> DefaultDynamics]
    /\ stateAlias = [i \in Sims |-> FALSE]
    /\ pc = "idle"
    /\ cur = 0
    /\ delta_t = 0
    /\ stp = NoStep
    /\ steps = [i \in Sims |-> 0]
    /\ ret = NoCall
    /\ path = NewPath
    /\ npath = NewNPath
    /\ winch = NewWinch
    /\ show = NewShow
    /\ last = [obj |-> "swing", frames |-> 0]

SwingTick(i) ==
    /\ last.obj = "swing"
    /\ last.frames < MaxSwingFrames
    /\ TimerTickCall(i, FrameInterval)
    /\ last' = [last EXCEPT !.frames = @ + 1]
    /\ UNCHANGED <<path, npath, winch, show>>

NextSwing ==
    \/ \E i \in Sims, st \in SwingStates, tq \in {Zero2, <<5000, -3000>>} :
            CallComputeControl(i, 0, DTF, st, tq, Gains("swingup").ki)
    \/ \E i \in Sims : SwingTick(i)
    \/ WhileTest
    \/ StepControl
    \/ StepDeriv
    \/ StepEuler
    \/ StepAdvance

SpecSwing == InitSwing /\ [][NextSwing]_vars

(***************************************************************************)
(* The freely swinging pendulum: the controller of ndblpend_free applies   *)
(* zero torque, and the simulator is started in one of several states.     *)
(* The mechanical energy is the one of the equations of motion in deriv:   *)
(* the kinetic energy of the inertia matrix d11, d12, d22 and the          *)
(* potential whose gradient is phi1, phi2.  It is measured at resolution   *)
(* FINE.                                                                   *)
(***************************************************************************)
\* cos y for 0 <= y <= PIF / 2, resolution FINE: the Taylor polynomial to y^12
CosFPoly(y) ==
    LET u  == MulF(y, y)
        c6 == FINE - Rnd(u, 132)
        c5 == FINE - Rnd(MulF(u, c6), 90)
        c4 == FINE - Rnd(MulF(u, c5), 56)
        c3 == FINE - Rnd(MulF(u, c4), 30)
        c2 == FINE - Rnd(MulF(u, c3), 12)
    IN  FINE - Rnd(MulF(u, c2), 2)

CosF(x) ==
    LET y == Abs(((x + PIF) % (2 * PIF)) - PIF)
    IN  IF 2 * y > PIF THEN -CosFPoly(PIF - y) ELSE CosFPoly(y)

KineticEnergy(p, st) ==
    LET c2  == CosF(st[2])
        d11 == ToFine(Mul(Mul(p.m1, p.lc1), p.lc1) + Mul(p.m2, Mul(p.l1, p.l1) + Mul(p.lc2, p.lc2))
                      + p.I1 + p.I2)
               + MulF(ToFine(Mul(p.m2, Mul(2 * p.l1, p.lc2))), c2)
        d12 == ToFine(Mul(p.m2, Mul(p.lc2, p.lc2)) + p.I2)
               + MulF(ToFine(Mul(p.m2, Mul(p.l1, p.lc2))), c2)
        d22 == ToFine(Mul(Mul(p.m2, p.lc2), p.lc2) + p.I2)
    IN  Rnd(MulF(MulF(d11, st[3]), st[3]) + 2 * MulF(MulF(d12, st[3]), st[4])
            + MulF(MulF(d22, st[4]), st[4]), 2)

PotentialEnergy(p, st) ==
    MulF(ToFine(Mul(Mul(p.m2, p.lc2), p.gravity)), CosF(st[1] + st[2]))
      + MulF(ToFine(Mul(Mul(p.m1, p.lc1) + Mul(p.m2, p.l1), p.gravity)), CosF(st[1]))

Energy(p, st) == KineticEnergy(p, st) + PotentialEnergy(p, st)

MaxEnergyFrames == 2             \* frames in one run

\* joint angles and joint velocities the run starts from, resolution FINE
StartAngles ==
    {<<0, 0>>, <<3 * FINE, 0>>, <<3050000, 0>>, <<FINE, 1500000>>, <<-2 * FINE, FINE>>,
     <<PIF, 0>>}
StartVelocities ==
    {<<0, 0>>, <<FINE, 0>>, <<0, -2 * FINE>>, <<3 * FINE, 3 * FINE>>, <<-3 * FINE, 2 * FINE>>}

InitEnergy ==
    /\ kind = "free"
    /\ control = [i \in Sims |-> kind]
    /\ t = [i \in Sims |-> 0]
    /\ ctl = [i \in Sims |-> NewController(kind, i)]
    /\ \E q \in StartAngles, v \in StartVelocities :
            state = [i \in Sims |-> <<q[1], q[2], v[1], v[2]>>]
    /\ tau \in {[i \in Sims |-> Zero2], [i \in Sims |-> <<5000, -5000>>]}
    /\ dydt = [i \in Sims |-> Uninit4]
    /\ origin = [i \in Sims |-> <<2200 * i, 0>>]
    /\ dyn = [i \in Sims |-> DefaultDynamics]
    /\ stateAlias = [i \in Sims |-> FALSE]
    /\ pc = "idle"
    /\ cur = 0
    /\ delta_t = 0
    /\ stp = NoStep
    /\ steps = [i \in Sims |-> 0]
    /\ ret = NoCall
    /\ path = NewPath
    /\ npath = NewNPath
    /\ winch = NewWinch
    /\ show = NewShow
    /\ last = [obj |-> "energy", frames |-> 0, start |-> state[0]]

EnergyTick ==
    /\ last.obj = "energy"
    /\ last.frames < MaxEnergyFrames
    /\ TimerTickCall(0, FrameInterval)
    /\ last' = [last EXCEPT !.frames = @ + 1]
    /\ UNCHANGED <<path, npath, winch, show>>

NextEnergy ==
    \/ EnergyTick
    \/ WhileTest
    \/ StepControl
    \/ StepDeriv
    \/ StepEuler
    \/ StepAdvance

SpecEnergy == InitEnergy /\ [][NextEnergy]_vars

(***************************************************************************)
(* show1: MotionPrimitives (show1/script/primitives.py) over the main      *)
(* application's simulators.  num_winch_sets is 1, so main.sims holds the  *)
(* one NPath kept in npath.  m is the main thread's view: the show record  *)
(* and the simulator.  Frequencies, damping ratios, tempo and magnitude    *)
(* are fixed-point values of resolution SCALE.                             *)
(***************************************************************************)
Main(s, sims) == [show |-> s, sims |-> sims]

\* show1.py MainApp.__init__: self.frame_interval = 0.040, in ms
FrameMs == 40

\* MotionPrimitives.set_freq_damping: frequency and damping_ratio to all_axes
\* of every simulator
SetFreqDamping(m) ==
    [m EXCEPT !.sims = NPathSetFreqDampingOf(@, Axes, m.show.primitives.frequency,
                                             m.show.primitives.damping_ratio)]

\* MotionPrimitives.set_frequency(f), set_damping(d)
SetFrequency(m, f) == SetFreqDamping([m EXCEPT !.show.primitives.frequency = f])
SetDamping(m, d) == SetFreqDamping([m EXCEPT !.show.primitives.damping_ratio = d])

\* MotionPrimitives.set_target, increment_target: winch_index // 4 is the
\* set, winch_index % 4 the winch of that set
PrimSetTarget(m, winch_index, n) ==
    [m EXCEPT !.sims = NPathSetTargetOf(@, {winch_index}, n * SCALE)]
PrimIncrementTarget(m, winch_index, n) ==
    [m EXCEPT !.sims = NPathIncrementTargetOf(@, {winch_index}, n * SCALE)]

\* MotionPrimitives.set_pose(name): set_target(i, p) for every entry of the
\* row, nothing for a name the table does not have
RECURSIVE SetPoseFrom(_, _, _)
SetPoseFrom(m, position, i) ==
    IF i = NAxes THEN m
    ELSE SetPoseFrom(PrimSetTarget(m, i, position[i]), position, i + 1)
SetPose(m, name) ==
    IF name \in DOMAIN m.show.primitives.poses
    THEN SetPoseFrom(m, m.show.primitives.poses[name], 0)
    ELSE m

\* a 'gains' branch that stores the ratio where set_freq_damping reads it
ProcessGainsCueAsRatio(m, args) ==
    SetFreqDamping([m EXCEPT !.show.primitives.frequency = args[2],
                             !.show.primitives.damping_ratio = args[3]])

\* MotionPrimitives.process_cue, the 'gains' branch: the ratio goes to the
\* attribute damping
ProcessGainsCue(m, args) ==
    SetFreqDamping([m EXCEPT !.show.primitives.frequency = args[2],
                             !.show.primitives.damping = [set |-> TRUE, value |-> args[3]]])

\* MotionPrimitives.process_cue(args)
ProcessCue(m, args) ==
    CASE args[1] = "pose" -> SetPose(m, args[2])
      [] args[1] = "random" -> [m EXCEPT !.show.primitives.random_mode = args[2]]
      [] args[1] = "tempo" -> [m EXCEPT !.show.primitives.tempo = args[2]]
      [] args[1] = "magnitude" -> [m EXCEPT !.show.primitives.magnitude = args[2]]
      [] args[1] = "gains" -> ProcessGainsCue(m, args)
      [] OTHER -> m

\* MotionPrimitives.simulator_velocity and vel.dot(vel).  A speed of
\* VelocityCap on one axis alone puts the square above both thresholds, and
\* the sum is then not formed.
VelocityCap == 4 * SCALE
RECURSIVE SumSquares(_, _)
SumSquares(v, n) == IF n = 0 THEN 0 ELSE SumSquares(v, n - 1) + Mul(v[n - 1], v[n - 1])
SqVelMag(sims) ==
    IF \E a \in Axes : Abs(sims.qd[a]) >= VelocityCap
    THEN Mul(VelocityCap, VelocityCap)
    ELSE SumSquares(sims.qd, NAxes)

StoppedBelow == 5 * SCALE        \* sqvelmag < 5.0
MovingAbove == 10 * SCALE        \* sqvelmag > 10.0
StatusHoldoff == 100             \* self.non_zero_velocity_timeout = 0.1, in ms

\* the negative of a float, a - b for a float b > 0 and a + c for a float
\* a < 0 and a float c > 0
DblNeg(a) == <<-a[1], -a[2], -a[3]>>
TimerSub(a, b) ==
    IF DblLess(a, DblZero) THEN DblNeg(DblAdd(DblNeg(a), b))
    ELSE IF DblLess(a, b) THEN DblNeg(DblSub(b, a))
    ELSE DblSub(a, b)
TimerAdd(a, c) ==
    IF DblLess(c, DblNeg(a)) THEN DblNeg(DblSub(DblNeg(a), c)) ELSE DblSub(c, DblNeg(a))

\* self.tempo/60.0 as a float, limit = int(800*self.magnitude)
Beat(tempo) == Dbl(tempo \div 60)
RandomLimit(magnitude) == (800 * magnitude) \div SCALE

\* the draws of random.randint(0,3) and random.randint(-limit, limit) the
\* model follows: a modelled winch, and the ends and the middle of the range
NoDraw == [winch |-> 0, offset |-> 0]
RandomDraws(limit) == [winch : Axes, offset : {-limit, 0, limit}]

\* a status that follows the thresholds at every update, the timeout left out
StatusOfNoHoldoff(m, interval) ==
    LET p == m.show.primitives
    IN  IF p.non_zero_velocity
        THEN (IF SqVelMag(m.sims) < StoppedBelow THEN "stopped" ELSE "none")
        ELSE (IF SqVelMag(m.sims) > MovingAbove THEN "moving" ELSE "none")

\* the status message of this update, "none" without one
StatusOf(m, interval) ==
    LET p == m.show.primitives
    IN  IF p.non_zero_velocity_timeout - interval < 0
        THEN IF p.non_zero_velocity
             THEN (IF SqVelMag(m.sims) < StoppedBelow THEN "stopped" ELSE "none")
             ELSE (IF SqVelMag(m.sims) > MovingAbove THEN "moving" ELSE "none")
        ELSE "none"

\* the random generator is due in this update
RandomDue(m, interval) ==
    /\ m.show.primitives.random_mode
    /\ DblLess(TimerSub(m.show.primitives.random_mode_timer, Dbl(interval)), DblZero)

\* a status message as it is put on script.input.  Besides the two words of
\* the code the entry records how many cues of the script had been applied
\* and how many simulator updates had followed when it was produced.
StatusMessage(m, word) == <<"status", word, m.show.applied, m.show.stepped>>

\* MotionPrimitives.update_for_interval(interval) with the draw d
PrimitivesUpdate(m, interval, d) ==
    LET p == m.show.primitives
        word == StatusOf(m, interval)
        timer == TimerSub(p.random_mode_timer, Dbl(interval))
        s1 == [m.show EXCEPT
                 !.primitives.non_zero_velocity = IF word = "none" THEN @ ELSE word = "moving",
                 !.primitives.non_zero_velocity_timeout =
                     IF word = "none" THEN @ - interval ELSE StatusHoldoff,
                 !.input = IF word = "none" THEN @ ELSE Append(@, StatusMessage(m, word)),
                 !.status = IF word = "none" THEN @ ELSE word,
                 !.elapsed = IF word = "none" THEN @ + interval ELSE 0,
                 !.primitives.random_mode_timer =
                     IF ~p.random_mode THEN @
                     ELSE IF RandomDue(m, interval) THEN TimerAdd(timer, Beat(p.tempo))
                     ELSE timer]
        m1 == [m EXCEPT !.show = s1]
    IN  IF RandomDue(m, interval) THEN PrimIncrementTarget(m1, d.winch, d.offset) ELSE m1

(***************************************************************************)
(* show1: the script thread (show1/rcp/script.py, show1/script/script1.py) *)
(* A message is the tuple the code puts on a queue; a console string is    *)
(* kept as the sequence of its text and of the value formatted into it.    *)
(***************************************************************************)
Put(s, item) == [s EXCEPT !.output = Append(@, item)]

\* Script.write(string)
Write(s, string) == Put(s, <<"console", string>>)

\* script1.Script.send_cue(*args), send_show(*args)
SendCue(s, args) ==
    Write([Put(s, <<"cue">> \o args) EXCEPT !.sent = @ + 1], <<"Issuing cue: ", args>>)
SendShow(s, args) == Write(Put(s, <<"show">> \o args), <<"Issuing show message: ", args>>)

\* script1.Script.send_reset_cue
SendResetCue(s) ==
    SendCue(SendCue(SendCue(SendCue(SendCue(Write(s, <<"Sending reset cue.">>),
                                            <<"gains", 500, 1000>>),
                                    <<"pose", "reset">>),
                            <<"random", FALSE>>),
                    <<"tempo", 60 * SCALE>>),
            <<"magnitude", SCALE>>)

\* a duration of ms milliseconds in frames of frame_interval
Frames(ms) == ms \div FrameMs
SleepShort == 1000               \* self.sleep(1.0), in ms
SleepLong == 5000                \* self.sleep(5.0), in ms
WaitTimeout == 20000             \* wait_until_stopped(timeout = 20.0), in ms

\* script1.Script.sequence, statement by statement
Statement(op, args, ms) == [op |-> op, args |-> args, frames |-> Frames(ms)]
SendPose(name) == Statement("cue", <<"pose", name>>, 0)
Sleep(ms) == Statement("sleep", <<>>, ms)
WaitUntilStopped == Statement("wait", <<>>, WaitTimeout)
Sequence ==
    << Statement("write", <<"Script starting.">>, 0),
       Statement("cue", <<"gains", 500, 1000>>, 0),
       SendPose("reset"),
       Sleep(SleepShort),
       SendPose("lead1"),
       WaitUntilStopped,
       SendPose("lead2"),
       WaitUntilStopped,
       SendPose("lead3"),
       WaitUntilStopped,
       Statement("cue", <<"random", TRUE>>, 0),
       Sleep(SleepLong),
       Statement("cue", <<"magnitude", 5 * SCALE>>, 0),
       Sleep(SleepLong),
       Statement("cue", <<"tempo", 120 * SCALE>>, 0),
       Sleep(SleepLong),
       Statement("cue", <<"random", FALSE>>, 0),
       WaitUntilStopped,
       SendPose("reset"),
       Sleep(SleepLong),
       Statement("show", <<"done">>, 0),
       Statement("write", <<"Script done.">>, 0) >>

\* on to the next statement; after the last one sequence() returns to the
\* top loop of script_task
Advance(s) == [s EXCEPT !.at = IF @ = Len(Sequence) THEN 0 ELSE @ + 1]

\* Script._user_stop_predicate, _motion_stop_predicate
UserStop(command) == command[1] = "console" /\ command[2] = "stop"
MotionStop(command) == command[1] = "status" /\ command[2] = "stopped"

\* a top loop that starts the sequence on any console command
TopLoopPlaysAlways(s, command) ==
    IF command[1] = "console"
    THEN [Write(s, <<"Script thread received user command: ", command[2]>>) EXCEPT !.at = 1]
    ELSE s

\* script_task: the body of the top loop for the command it got
TopLoop(s, command) ==
    IF command[1] = "console"
    THEN LET s1 == Write(s, <<"Script thread received user command: ", command[2]>>)
         IN  IF command[2] = "reset" THEN SendResetCue(s1)
             ELSE IF command[2] = "play" THEN [s1 EXCEPT !.at = 1]
             ELSE s1
    ELSE IF command[1] = "script"
    THEN LET s1 == Write(s, <<"Script thread received network command: ", command[2]>>)
         IN  IF command[2] = "start" THEN [s1 EXCEPT !.at = 1] ELSE s1
    ELSE IF command[1] = "status"
    THEN Write(s, <<"Script thread received status: ", command>>)
    ELSE s

\* ScriptStopException and ScriptTimeoutException caught in script_task
Stopped(s) ==
    Write([s EXCEPT !.waiting = FALSE, !.at = 0, !.stopped_at = s.at], <<"Script stopped and idle.">>)
StepTimedOut(s) ==
    Write([s EXCEPT !.waiting = FALSE, !.at = 0], <<"Warning: script step timed out.  Script idle.">>)

\* event_wait returns 'timeout': sleep returns, wait_until_stopped raises
TimedOut(s) ==
    IF Sequence[s.at].op = "sleep" THEN Advance([s EXCEPT !.waiting = FALSE])
    ELSE StepTimedOut(s)

\* wait_until_stopped returns on the status message command
MotionStopped(s, command) ==
    Advance([s EXCEPT !.waiting = FALSE,
                      !.ended = [set |-> TRUE, cue |-> s.sent,
                                 applied |-> command[3], stepped |-> command[4]]])

\* an event_wait in which a stop command is ignored like any other message
EventWaitDeaf(s, command) ==
    IF Sequence[s.at].op = "wait" /\ MotionStop(command) THEN MotionStopped(s, command)
    ELSE LET s1 == Write(s, <<"event_wait ignoring message ", command>>)
         IN  IF s.now < s.deadline THEN s1 ELSE TimedOut(s1)

\* event_wait with the predicate of sleep or of wait_until_stopped, for the
\* command it got: remaining = start + timeout - time.time() is positive
\* while fewer frames than the timeout have begun
EventWait(s, command) ==
    IF UserStop(command) THEN Stopped(s)
    ELSE IF Sequence[s.at].op = "wait" /\ MotionStop(command) THEN MotionStopped(s, command)
    ELSE LET s1 == Write(s, <<"event_wait ignoring message ", command>>)
         IN  IF s.now < s.deadline THEN s1 ELSE TimedOut(s1)

\* the script thread has something to do
ScriptReady(s) ==
    \/ s.at = -1
    \/ s.at >= 1 /\ ~s.waiting
    \/ (s.at = 0 \/ s.waiting) /\ s.input # <<>>
    \/ s.waiting /\ s.now >= s.deadline

showOnly == <<path, npath, last, winch, pendVars>>

\* Script.start: the thread enters script_task
ScriptWakeUp ==
    /\ show.at = -1
    /\ show' = Write([show EXCEPT !.at = 0], <<"Script thread waking up.">>)
    /\ UNCHANGED showOnly

\* command = self.input.get() in the top loop and what the loop does with it,
\* up to the call of sequence()
ScriptIdleGet ==
    /\ show.at = 0
    /\ show.input # <<>>
    /\ show' = TopLoop([show EXCEPT !.input = Tail(@)], Head(show.input))
    /\ UNCHANGED showOnly

\* one statement of sequence(): a message sent, or an event_wait begun
ScriptStatement ==
    /\ show.at >= 1
    /\ ~show.waiting
    /\ LET st == Sequence[show.at]
       IN  show' = CASE st.op = "write" -> Advance(Write(show, st.args))
                     [] st.op = "cue" -> Advance(SendCue(show, st.args))
                     [] st.op = "show" -> Advance(SendShow(show, st.args))
                     [] OTHER -> [show EXCEPT !.waiting = TRUE,
                                              !.deadline = show.now + st.frames]
    /\ UNCHANGED showOnly

\* self.input.get(block=True, timeout=remaining) returns a message
ScriptGet ==
    /\ show.waiting
    /\ show.input # <<>>
    /\ show' = EventWait([show EXCEPT !.input = Tail(@)], Head(show.input))
    /\ UNCHANGED showOnly

\* self.input.get(block=True, timeout=remaining) raises queue.Empty
ScriptTimeout ==
    /\ show.waiting
    /\ show.input = <<>>
    /\ show.now >= show.deadline
    /\ show' = TimedOut(show)
    /\ UNCHANGED showOnly

(***************************************************************************)
(* show1: the main thread (show1/show1.py).  The window, the OSC sender    *)
(* and the serial winches take what they are given and give nothing back.  *)
(***************************************************************************)
MaxShowFrames == 130
MaxUserCommands == 3
UserFrames == {0, 30, 40}
ShowRun == [frames |-> MaxShowFrames, moments |-> UserFrames, commands |-> MaxUserCommands]
ConsoleCommands == {"play", "stop", "reset"}
RemoteCues == {<<"gains", 500, 1000>>, <<"gains", 2000, 500>>, <<"pose", "lead1">>,
               <<"random", TRUE>>}
Knobs == {500}

\* the user may act: between two frames, at one of the moments followed
UserTurn == ~show.polled /\ show.user < show.run.commands /\ show.now \in show.run.moments

\* scriptCommandEntered, scriptButtonPressed: ('console', command) to the script
UserCommand(c) ==
    /\ UserTurn
    /\ show' = [show EXCEPT !.input = Append(@, <<"console", c>>), !.user = @ + 1]
    /\ UNCHANGED showOnly

\* _received_remote_script: ('script',) + args to the script
RemoteScript(args) ==
    /\ UserTurn
    /\ show' = [show EXCEPT !.input = Append(@, <<"script">> \o args), !.user = @ + 1]
    /\ UNCHANGED showOnly

\* _received_remote_cue: the cue goes straight to process_cue
RemoteCue(args) ==
    /\ UserTurn
    /\ LET m == ProcessCue(Main([show EXCEPT !.user = @ + 1, !.after = args], npath), args)
       IN  show' = m.show /\ npath' = m.sims
    /\ UNCHANGED <<path, last, winch, pendVars>>

\* MotionPrimitives.set_damping(d), as a knob of the controller calls it
KnobDamping(d) ==
    /\ UserTurn
    /\ LET m == SetDamping(Main([show EXCEPT !.user = @ + 1, !.after = <<"set_damping", d>>],
                                 npath), d)
       IN  show' = m.show /\ npath' = m.sims
    /\ UNCHANGED <<path, last, winch, pendVars>>

\* poll_script_queues: a console item goes to the window and a show item to
\* the OSC sender, a cue item to process_cue, until the queue is empty
PollItem(m, item) ==
    IF item[1] = "cue"
    THEN [ProcessCue(m, Tail(item)) EXCEPT !.show.applied = @ + 1, !.show.stepped = 0,
                                           !.show.after = Tail(item)]
    ELSE m
RECURSIVE PollScriptQueues(_)
PollScriptQueues(m) ==
    IF m.show.output = <<>> THEN m
    ELSE PollScriptQueues(PollItem([m EXCEPT !.show.output = Tail(@)], Head(m.show.output)))

\* frame_timer_tick up to the end of poll_script_queues.  The timer fires
\* every 40 ms and the script thread never sleeps through a whole period: a
\* thread with something to do has done it when the next frame begins.
FramePoll ==
    /\ ~show.polled
    /\ ~ScriptReady(show)
    /\ show.now < show.run.frames
    /\ LET m == PollScriptQueues(Main(show, npath))
       IN  /\ show' = [m.show EXCEPT !.polled = TRUE, !.now = @ + 1]
           /\ npath' = m.sims
    /\ UNCHANGED <<path, last, winch, pendVars>>

\* the rest of frame_timer_tick: primitives.update_for_interval and the
\* update of the simulator
FrameUpdate ==
    /\ show.polled
    /\ \E d \in IF RandomDue(Main(show, npath), FrameMs)
                THEN RandomDraws(RandomLimit(show.primitives.magnitude)) ELSE {NoDraw} :
          LET m == PrimitivesUpdate(Main(show, npath), FrameMs, d)
          IN  /\ show' = [m.show EXCEPT !.polled = FALSE, !.stepped = @ + 1]
              /\ npath' = NPathUpdate(m.sims, Dbl(FrameMs))
    /\ UNCHANGED <<path, last, winch, pendVars>>

\* the application as constructed, with the run it is followed through
Constructed(run) ==
    /\ kind = "pd"
    /\ control = [i \in Sims |-> "none"]
    /\ t = [i \in Sims |-> 0]
    /\ state = [i \in Sims |-> Zero4]
    /\ tau = [i \in Sims |-> Zero2]
    /\ dydt = [i \in Sims |-> Uninit4]
    /\ origin = [i \in Sims |-> Zero2]
    /\ dyn = [i \in Sims |-> DefaultDynamics]
    /\ stateAlias = [i \in Sims |-> FALSE]
    /\ ctl = [i \in Sims |-> NewController(kind, i)]
    /\ pc = "idle"
    /\ cur = 0
    /\ delta_t = 0
    /\ stp = NoStep
    /\ steps = [i \in Sims |-> 0]
    /\ ret = NoCall
    /\ path = NewPath
    /\ npath = NewNPath
    /\ winch = NewWinch
    /\ last = [NoPathCall EXCEPT !.obj = "show"]
    /\ \E poses \in PoseTables : show = [NewShowWith(poses) EXCEPT !.run = run]

InitShow == Constructed(ShowRun)

NextShow ==
    \/ ScriptWakeUp
    \/ ScriptIdleGet
    \/ ScriptStatement
    \/ ScriptGet
    \/ ScriptTimeout
    \/ \E c \in ConsoleCommands : UserCommand(c)
    \/ RemoteScript(<<"start">>)
    \/ FramePoll
    \/ FrameUpdate

SpecShow == InitShow /\ [][NextShow]_vars

(***************************************************************************)
(* show1 with its script idle: cues from the network and the knob          *)
(***************************************************************************)
MaxCueFrames == 12
MaxRemoteCues == 2
CueFrames == {0, 5}
CueRun == [frames |-> MaxCueFrames, moments |-> CueFrames, commands |-> MaxRemoteCues]

InitCue == Constructed(CueRun)

NextCue ==
    \/ ScriptWakeUp
    \/ ScriptIdleGet
    \/ \E args \in RemoteCues : RemoteCue(args)
    \/ \E d \in Knobs : KnobDamping(d)
    \/ FramePoll
    \/ FrameUpdate

SpecCue == InitCue /\ [][NextCue]_vars

(***************************************************************************)
(* A path generator driven by its command API and by step                  *)
(***************************************************************************)
InitPath ==
    /\ kind = "pd"
    /\ control = [i \in Sims |-> "none"]
    /\ t = [i \in Sims |-> 0]
    /\ state = [i \in Sims |-> Zero4]
    /\ tau = [i \in Sims |-> Zero2]
    /\ dydt = [i \in Sims |-> Uninit4]
    /\ origin = [i \in Sims |-> Zero2]
    /\ dyn = [i \in Sims |-> DefaultDynamics]
    /\ stateAlias = [i \in Sims |-> FALSE]
    /\ ctl = [i \in Sims |-> NewController(kind, i)]
    /\ pc = "idle"
    /\ cur = 0
    /\ delta_t = 0
    /\ stp = NoStep
    /\ steps = [i \in Sims |-> 0]
    /\ ret = NoCall
    /\ path = NewPath
    /\ npath = NewNPath
    /\ winch = NewWinch
    /\ show = NewShow
    /\ \E o \in {"path", "npath", "winch"} : last = [NoPathCall EXCEPT !.obj = o]

NextPath ==
    \/ \E position \in Positions : PathSetTarget(position)
    \/ \E offset \in Offsets : PathIncrementTarget(offset)
    \/ \E velocity \in Velocities : PathSetVelocity(velocity)
    \/ \E fd \in FreqDampings : PathSetFreqDamping(fd[1], fd[2])
    \/ \E dt \in StepDts : PathStepCall(dt)
    \/ \E interval \in Intervals : PathUpdateForInterval(interval)
    \/ \E axis \in AxisArgs : NPathSetTarget(axis, 2000 * SCALE)
    \/ \E axis \in AxisArgs, offset \in Offsets : NPathIncrementTarget(axis, offset)
    \/ \E axis \in AxisArgs, offset \in Offsets : NPathIncrementReference(axis, offset)
    \/ \E axis \in AxisArgs, speed \in Speeds : NPathSetSpeed(axis, speed)
    \/ \E axis \in AxisLists, fd \in FreqDampings : NPathSetFreqDamping(axis, fd[1], fd[2])
    \/ \E dt \in StepDts : NPathStepCall(dt)
    \/ \E interval \in Intervals : NPathUpdateForInterval(interval)
    \/ \E axis \in AxisArgs, position \in Positions :
           WinchSetTarget(axis, [a \in Axes |-> position])
    \/ \E offset \in OffsetLists : WinchIncrementTarget(Axes, offset)
    \/ \E axis \in AxisArgs, velocity \in Velocities :
           WinchSetVelocity(axis, [a \in Axes |-> velocity])
    \/ \E axis \in AxisLists, fd \in FreqDampings : WinchSetFreqDamping(axis, fd[1], fd[2])
    \/ \E interval \in Intervals : WinchUpdateForInterval(interval)

SpecPath == InitPath /\ [][NextPath]_vars

(***************************************************************************)
(* An NPath that is given commands (and may run for an interval between    *)
(* them) and is then stepped with one fixed dt > 0 and no further command  *)
(***************************************************************************)
MaxRamp == 12                    \* steps of the fixed size in one run
RampDts == {SCALE \div 10, SCALE}

\* the caller starts to call step(dt) and issues no more commands
RampStart(dt) ==
    /\ last.obj = "npath"
    /\ last' = [obj |-> "ramp", op |-> "start", args |-> [dt |-> dt], before |-> npath,
                count |-> 0]
    /\ UNCHANGED <<path, npath, winch, show, pendVars>>

RampStep ==
    /\ last.obj = "ramp"
    /\ last.count < MaxRamp
    /\ npath' = NPathStep(npath, Dbl(last.args.dt))
    /\ last' = [last EXCEPT !.op = "step", !.count = @ + 1]
    /\ UNCHANGED <<path, winch, show, pendVars>>

InitRamp == InitPath /\ last.obj = "npath"

NextRamp ==
    \/ NPathSetTarget(Axes, 50 * SCALE)
    \/ \E offset \in Offsets : NPathIncrementTarget({0}, offset)
    \/ \E offset \in Offsets : NPathIncrementReference(Axes, offset)
    \/ \E speed \in Speeds : NPathSetSpeed({0}, speed)
    \/ NPathUpdateForInterval(12)
    \/ \E dt \in RampDts : RampStart(dt)
    \/ RampStep

SpecRamp == InitRamp /\ [][NextRamp]_vars

(***************************************************************************)
(* Two instances of NPath, or of SimWinch, that receive the same calls for *)
(* one axis and the same steps, and calls of their own for the other axes. *)
(* The first instance is npath (winch), the second one is last.twin.       *)
(***************************************************************************)
MaxTwinCalls == 3                \* calls on the pair of instances in one run

\* a call c = [op, axis, x] on an NPath p and on a SimWinch w
NPathCall(p, c) ==
    CASE c.op = "set_target" -> NPathSetTargetOf(p, c.axis, c.x[1])
      [] c.op = "increment_target" -> NPathIncrementTargetOf(p, c.axis, c.x[1])
      [] c.op = "increment_reference" -> NPathIncrementReferenceOf(p, c.axis, c.x[1])
      [] c.op = "set_speed" -> NPathSetSpeedOf(p, c.axis, c.x[1])
      [] c.op = "set_freq_damping" -> NPathSetFreqDampingOf(p, c.axis, c.x[1], c.x[2])
      [] c.op = "step" -> NPathStep(p, Dbl(c.x[1]))
      [] c.op = "update_for_interval" -> NPathUpdate(p, Dbl(c.x[1]))
WinchCall(w, c) ==
    CASE c.op = "set_target" -> WinchSetTargetOf(w, c.axis, [a \in Axes |-> c.x[1]])
      [] c.op = "increment_target" -> WinchIncrementTargetOf(w, c.axis, [a \in Axes |-> c.x[1]])
      [] c.op = "set_velocity" -> WinchSetVelocityOf(w, c.axis, [a \in Axes |-> c.x[1]])
      [] c.op = "set_freq_damping" -> WinchSetFreqDampingOf(w, c.axis, c.x[1], c.x[2])
      [] c.op = "update_for_interval" -> WinchUpdate(w, Dbl(c.x[1]))
Call(cls, o, c) == IF cls = "npath" THEN NPathCall(o, c) ELSE WinchCall(o, c)

TwinCommands(cls) ==
    IF cls = "npath"
    THEN {[op |-> "set_target", x |-> <<2000 * SCALE>>],
          [op |-> "increment_target", x |-> <<-30 * SCALE>>],
          [op |-> "increment_reference", x |-> <<-30 * SCALE>>],
          [op |-> "set_speed", x |-> <<100 * SCALE>>],
          [op |-> "set_freq_damping", x |-> <<2 * SCALE, SCALE \div 2>>]}
    ELSE {[op |-> "set_target", x |-> <<2000 * SCALE>>],
          [op |-> "increment_target", x |-> <<-30 * SCALE>>],
          [op |-> "set_velocity", x |-> <<30 * SCALE>>],
          [op |-> "set_freq_damping", x |-> <<2 * SCALE, SCALE \div 2>>]}
TwinRuns(cls) ==
    IF cls = "npath"
    THEN {[op |-> "step", x |-> <<SubStep>>], [op |-> "step", x |-> <<SCALE>>],
          [op |-> "update_for_interval", x |-> <<12>>]}
    ELSE {[op |-> "update_for_interval", x |-> <<12>>],
          [op |-> "update_for_interval", x |-> <<50>>]}

First == IF last.kind = "npath" THEN npath ELSE winch
TwinReady == last.obj = "twins" /\ last.count < MaxTwinCalls

\* the first instance becomes a, the second b
TwinResult(a, b, op, side, axis) ==
    /\ IF last.kind = "npath"
       THEN npath' = a /\ UNCHANGED winch
       ELSE winch' = a /\ UNCHANGED npath
    /\ last' = [last EXCEPT !.op = op, !.side = side, !.args = [axis |-> axis],
                            !.before = [a |-> First, b |-> last.twin],
                            !.twin = b, !.count = @ + 1]
    /\ UNCHANGED <<path, show, pendVars>>

\* both instances receive command c for the axis last.axis; the first one
\* names the axes of list in the call, the second one last.axis alone
TwinBoth(c, list) ==
    /\ TwinReady
    /\ last.axis \in list
    /\ TwinResult(Call(last.kind, First, [op |-> c.op, axis |-> list, x |-> c.x]),
                  Call(last.kind, last.twin, [op |-> c.op, axis |-> {last.axis}, x |-> c.x]),
                  c.op, "both", <<list, {last.axis}>>)

\* one instance receives command c for the other axes
TwinOnly(c, side) ==
    /\ TwinReady
    /\ LET call == [op |-> c.op, axis |-> Axes \ {last.axis}, x |-> c.x]
       IN  TwinResult(IF side = "a" THEN Call(last.kind, First, call) ELSE First,
                      IF side = "b" THEN Call(last.kind, last.twin, call) ELSE last.twin,
                      c.op, side, <<call.axis, call.axis>>)

\* both instances are stepped, or run for an interval, with the same argument
TwinRun(c) ==
    /\ TwinReady
    /\ TwinResult(Call(last.kind, First, [op |-> c.op, axis |-> {}, x |-> c.x]),
                  Call(last.kind, last.twin, [op |-> c.op, axis |-> {}, x |-> c.x]),
                  c.op, "both", <<Axes, Axes>>)

InitTwin ==
    /\ kind = "pd"
    /\ control = [i \in Sims |-> "none"]
    /\ t = [i \in Sims |-> 0]
    /\ state = [i \in Sims |-> Zero4]
    /\ tau = [i \in Sims |-> Zero2]
    /\ dydt = [i \in Sims |-> Uninit4]
    /\ origin = [i \in Sims |-> Zero2]
    /\ dyn = [i \in Sims |-> DefaultDynamics]
    /\ stateAlias = [i \in Sims |-> FALSE]
    /\ ctl = [i \in Sims |-> NewController(kind, i)]
    /\ pc = "idle"
    /\ cur = 0
    /\ delta_t = 0
    /\ stp = NoStep
    /\ steps = [i \in Sims |-> 0]
    /\ ret = NoCall
    /\ path = NewPath
    /\ npath = NewNPath
    /\ winch = NewWinch
    /\ show = NewShow
    /\ \E k \in {"npath", "winch"}, a \in Axes :
           last = [obj |-> "twins", kind |-> k, axis |-> a, op |-> "none", side |-> "both",
                   args |-> [axis |-> <<{}, {}>>],
                   before |-> [a |-> IF k = "npath" THEN NewNPath ELSE NewWinch,
                               b |-> IF k = "npath" THEN NewNPath ELSE NewWinch],
                   twin |-> IF k = "npath" THEN NewNPath ELSE NewWinch, count |-> 0]

NextTwin ==
    \/ \E c \in TwinCommands(last.kind), list \in AxisLists \cup AxisArgs : TwinBoth(c, list)
    \/ \E c \in TwinCommands(last.kind), side \in {"a", "b"} : TwinOnly(c, side)
    \/ \E c \in TwinRuns(last.kind) : TwinRun(c)

SpecTwin == InitTwin /\ [][NextTwin]_vars

(***************************************************************************)
(* Properties of timer_tick, reset and the controllers, under Spec         *)
(***************************************************************************)
StepOrder == <<"control", "deriv", "euler", "advance">>
InStep == pc \in {"deriv", "euler", "advance"} \/ (pc = "while" /\ stp.events # <<>>)

\* C1: every inner step of timer_tick makes exactly one call of compute_control,
\* with the time and the state from before the step; then computes the
\* derivative from that same state and the tau the call wrote; then makes one
\* forward-Euler update state + dt * derivative; then advances t by dt.  What
\* the step has done so far is always a prefix of that order, so no second
\* call of compute_control happens inside a step.
C1_StepOrder ==
    /\ pc \in {"control", "deriv", "euler", "advance", "raised"} \/ InStep =>
          /\ \E n \in 0 .. 4 : stp.events \in {SubSeq(StepOrder, 1, n), <<"raise">>}
          /\ stp.calls = (IF stp.events \in {<<>>, <<"raise">>} THEN 0 ELSE 1)
    /\ InStep =>
          /\ stp.ctl_t = stp.t0 /\ stp.ctl_state = stp.state0 /\ stp.ctl_dt = DTF
          /\ stp.out.state = stp.state0
    /\ pc \in {"euler", "advance"} \/ (pc = "while" /\ stp.events # <<>>) =>
          /\ stp.deriv_state = stp.state0
          /\ stp.deriv_tau = stp.out.tau
          /\ dydt[cur] = Deriv(dyn[cur], stp.state0, stp.out.tau)
    /\ pc = "advance" \/ (pc = "while" /\ stp.events # <<>>) =>
          state[cur] = [k \in 1 .. 4 |-> stp.state0[k] + Mul(DT, dydt[cur][k])]
    /\ pc = "advance" => t[cur] = stp.t0
    /\ pc = "while" /\ stp.events # <<>> =>
          /\ stp.events = StepOrder
          /\ t[cur] = stp.t0 + DTF

\* a second inner step of one tick is complete and it moved the state
C1_Witness ==
    /\ pc = "while"
    /\ stp.events = StepOrder
    /\ stp.tick.n = 2
    /\ state[cur] # stp.state0
    /\ state[cur][1] # stp.state0[1]

C3_Reset ==
    /\ ret.op \in {"reset", "connect_controller"} =>
          /\ t[ret.sim] = 0
          /\ tau[ret.sim] = Zero2
          /\ state[ret.sim] = (IF control[ret.sim] = "none" THEN Zero4
                               ELSE ctl[ret.sim].initial_state)
          /\ ~stateAlias[ret.sim]
    /\ \A i \in Sims :
          /\ ctl[i].initial_state = InitialState(kind, i)
          /\ ~stateAlias[i]

\* a reset after two inner steps of the free pendulum, which starts away from
\* zero: time has run on the other counter and the state is back at 3.05
C3_Witness ==
    /\ ret.op = "reset"
    /\ ret.sim = 1
    /\ kind = "free"
    /\ control[1] = "free"
    /\ steps[1] >= 2
    /\ t[1] = 0
    /\ state[1] = <<3050000, 0, 0, 0>>

\* C4: with the default dynamics parameters, an inner step that starts at
\* state [0,0,0,0] and whose controller wrote zero torque computes a derivative
\* of four zeros and leaves the state at [0,0,0,0]; so a timer_tick of any
\* length under a controller that answers zero torque there (the free
\* controller, the keyframe controller with its zero keyframes) returns with
\* the state still exactly [0,0,0,0] and only t advanced.
C4_HangingFixedPoint ==
    /\ /\ pc \in {"euler", "advance"} \/ (pc = "while" /\ stp.events # <<>>)
       /\ dyn[cur] = DefaultDynamics
       /\ stp.state0 = Zero4
       /\ stp.out.tau = Zero2
       => /\ dydt[cur] = Zero4
          /\ pc # "euler" => state[cur] = Zero4
    /\ /\ ret.op = "timer_tick"
       /\ dyn[ret.sim] = DefaultDynamics
       /\ ret.state0 = Zero4
       /\ \/ control[ret.sim] = "free"
          \/ /\ control[ret.sim] = "keyframes"
             /\ \A f \in 0 .. (NumKeyframes - 1) : ctl[ret.sim].keyframes[f] = Zero2
       => /\ state[ret.sim] = Zero4
          /\ t[ret.sim] = ret.t0 + ret.n * DTF

\* a tick of three inner steps from the hanging state under zero torque has returned
C4_Witness ==
    /\ ret.op = "timer_tick"
    /\ control[ret.sim] = "keyframes"
    /\ ret.state0 = Zero4
    /\ ret.n = 3
    /\ tau[ret.sim] = Zero2
    /\ state[ret.sim] = Zero4
    /\ t[ret.sim] = 3 * DTF

KinOps == {"forwardKinematics", "endpointIK"}
ResetOps == {"reset", "connect_controller"}

\* what one step of the program may change
FrameStep ==
    /\ \A i \in Sims :
          /\ state'[i] # state[i] =>
                \/ pc = "euler" /\ i = cur
                \/ pc = "idle" /\ ret'.op \in ResetOps /\ ret'.sim = i
          /\ t'[i] # t[i] =>
                \/ pc = "advance" /\ i = cur
                \/ pc = "idle" /\ ret'.op \in ResetOps /\ ret'.sim = i
    /\ ret'.op \in KinOps /\ ret' # ret =>
          /\ UNCHANGED <<state, t, tau, dydt, origin, dyn, ctl, control>>
          /\ ret'.out.arg = (IF ret'.op = "endpointIK" THEN ret'.target ELSE ret'.q)
          /\ ret'.out.origin = origin[ret'.sim]
          /\ ret'.out.dyn = dyn[ret'.sim]

\* C7: the state vector and t of a simulator change only in the Euler step of
\* its timer_tick (state in the update, t in the advance after it) and in its
\* reset/connect_controller; in particular the compute_control call of a step
\* leaves the state array it is handed as it was.  forwardKinematics(q) and
\* endpointIK(target) change neither state, t, tau, origin nor the dynamics
\* parameters, and leave their argument as it was passed.
C7_Frame == [][FrameStep]_vars

\* endpointIK was called on the second pendulum, away from the world origin,
\* after a tick had moved it, and its state and time are those the tick left
C7_Witness ==
    /\ ret.op = "endpointIK"
    /\ ret.sim = 1
    /\ origin[1] = <<2200, 0>>
    /\ steps[1] >= 2
    /\ t[1] = 2 * DTF
    /\ state[1] # ctl[1].initial_state
    /\ ret.out.arg = ret.target

(***************************************************************************)
(* Properties of the controllers called directly, under SpecCtl            *)
(***************************************************************************)
\* C5: a call of the default compute_control leaves, for i in {0, 1},
\* tau[i] = kp[i]*(d_state[i] - state[i]) + kd[i]*(d_state[i+2] - state[i+2]),
\* whatever t, dt, the integral gains ki and the previous contents of tau are
\* and however many calls came before; the call leaves the controller's
\* fields as they were constructed.
C5_PDLaw ==
    ret.op = "compute_control" /\ control[ret.sim] = "pd" =>
        /\ \A j \in 1 .. 2 :
              ret.out.tau[j] =
                  Mul(ctl[ret.sim].gains.kp[j],
                      ToMilli(ctl[ret.sim].gains.d_state[j] - ret.state_in[j]))
                  + Mul(ctl[ret.sim].gains.kd[j],
                        ToMilli(ctl[ret.sim].gains.d_state[j + 2] - ret.state_in[j + 2]))
        /\ ctl[ret.sim] = NewController("pd", ret.sim)

\* a third call, with other integral gains, a doubled dt and tau already
\* filled, away from the setpoint
C5_Witness ==
    /\ ret.op = "compute_control"
    /\ control[ret.sim] = "pd"
    /\ steps[ret.sim] = 3
    /\ ret.state_in = <<600000, -300000, 200000, -100000>>
    /\ ret.out.tau # Zero2
    /\ \E s \in Sims :
          /\ s # ret.sim
          /\ steps[s] = 0

\* C6: one call of compute_control of any shipped controller (default PD,
\* keyframes, swing-up, free, spirals), in any state and on any branch, assigns
\* both tau[0] and tau[1]; so in an inner step of timer_tick the torque the
\* derivative reads is the pair written by the call of that same step.
C6_BothTorquesWritten ==
    /\ ret.op = "compute_control" =>
          /\ ~ret.out.raised
          /\ ret.out.written = {0, 1}
    /\ InStep =>
          /\ ~stp.out.raised
          /\ stp.out.written = {0, 1}
    /\ pc \in {"euler", "advance"} \/ (pc = "while" /\ stp.events # <<>>) =>
          stp.deriv_tau = stp.out.tau

\* the swing-up controller called on its coasting branch, with tau filled beforehand
C6_Witness ==
    /\ ret.op = "compute_control"
    /\ control[ret.sim] = "swingup"
    /\ Abs(ret.state_in[1]) >= PumpBand
    /\ ret.out.written = {0, 1}
    /\ ret.out.tau = <<-40, 20>>

(***************************************************************************)
(* Properties of the kinematics, under SpecKin                             *)
(***************************************************************************)
\* C8: endpointIK(target) raises nothing on a target out of reach and
\* saturates: farther from the origin than l1 + l2 the law-of-cosines
\* argument is below -1, elbow_supplement is pi, both solutions have elbow
\* angle 0 and the same shoulder angle theta; nearer than |l1 - l2| the argument
\* is above 1, elbow_supplement is 0 and the elbow angles are pi and -pi.
\* acos is evaluated only on arguments in [-1, 1], and what the call returns is
\* what the same target, origin and link lengths give in any other call.
C8_Saturation ==
    ret.op = "endpointIK" =>
        /\ ret.out.radiussq > Mul(dyn[ret.sim].l1 + dyn[ret.sim].l2,
                                  dyn[ret.sim].l1 + dyn[ret.sim].l2) =>
              /\ ~ret.out.raised
              /\ ret.out.acosarg < -SCALE
              /\ ret.out.elbow_supplement = PI
              /\ ret.out.soln1[2] = 0 /\ ret.out.soln2[2] = 0
              /\ ret.out.soln1[1] = ret.out.theta /\ ret.out.soln2[1] = ret.out.theta
        /\ ret.out.radiussq < Mul(dyn[ret.sim].l1 - dyn[ret.sim].l2,
                                  dyn[ret.sim].l1 - dyn[ret.sim].l2) =>
              /\ ~ret.out.raised
              /\ ret.out.acosarg > SCALE
              /\ ret.out.elbow_supplement = 0
              /\ ret.out.soln1[2] = PI /\ ret.out.soln2[2] = -PI
        /\ ret.out.acos_called =>
              /\ ret.out.acosarg >= -SCALE
              /\ ret.out.acosarg <= SCALE
        /\ ret.out.soln1 = IKPolar(dyn[ret.sim], origin[ret.sim], ret.target,
                                   Vec2Sub(ret.target, origin[ret.sim]),
                                   ret.out.radiussq).soln1
        /\ ret.out.soln2 = IKPolar(dyn[ret.sim], origin[ret.sim], ret.target,
                                   Vec2Sub(ret.target, origin[ret.sim]),
                                   ret.out.radiussq).soln2

\* a target too near for links of 1 and 2, about an origin away from the world origin
C8_Witness ==
    /\ ret.op = "endpointIK"
    /\ dyn[ret.sim].l1 = SCALE /\ dyn[ret.sim].l2 = 2 * SCALE
    /\ origin[ret.sim] = <<2200, 0>>
    /\ ret.target = <<2200, 500>>
    /\ ret.out.radius = 500
    /\ ret.out.elbow_supplement = 0
    /\ ret.out.soln1[2] = PI

\* the squared distance of the target of the endpointIK call behind a chained
\* forwardKinematics call from the origin
ChainRadiusSq ==
    Mul(ret.src[1][1] - origin[ret.sim][1], ret.src[1][1] - origin[ret.sim][1])
      + Mul(ret.src[1][2] - origin[ret.sim][2], ret.src[1][2] - origin[ret.sim][2])

\* the round trip is judged to 0.05 length units, far above what the rounding
\* of the fixed-point operators adds
RoundTripTol == SCALE \div 20

\* C9 (as stated): for any positive link lengths, any origin and any target with
\* |l1 - l2| <= distance from the origin <= l1 + l2, the endpoint that
\* forwardKinematics(endpointIK(target)[0]) returns equals target.
C9_RoundTrip ==
    /\ ret.op = "forwardKinematics"
    /\ ret.src # <<>>
    /\ ChainRadiusSq >= Mul(dyn[ret.sim].l1 - dyn[ret.sim].l2, dyn[ret.sim].l1 - dyn[ret.sim].l2)
    /\ ChainRadiusSq <= Mul(dyn[ret.sim].l1 + dyn[ret.sim].l2, dyn[ret.sim].l1 + dyn[ret.sim].l2)
    => /\ Abs(ret.out.end[1] - ret.src[1][1]) <= RoundTripTol
       /\ Abs(ret.out.end[2] - ret.src[1][2]) <= RoundTripTol

(***************************************************************************)
(* Properties of the path generators, under SpecPath                       *)
(***************************************************************************)
\* |v| <= limit as the float comparison: false for nan
Within(v, limit) == FLeq(NpAbs(v), limit)

\* C10 (as stated): in every state a fresh Path or NPath reaches by commands
\* and by steps with dt >= 0, |qd| <= qd_max and |qdd| <= qdd_max on every axis,
\* and one step changes the position by at most qd_max * dt.
C10_Clamp ==
    /\ Within(path.qd, path.qd_max)
    /\ Within(path.qdd, path.qdd_max)
    /\ last.obj = "path" /\ last.op = "step" =>
          Within(FSub(path.q, last.before.q), FMul(path.qd_max, last.args.dt))
    /\ \A a \in Axes :
          /\ Within(npath.qd[a], npath.qd_max)
          /\ Within(npath.qdd[a], npath.qdd_max)
          /\ last.obj = "npath" /\ last.op = "step" =>
                Within(FSub(npath.q[a], last.before.q[a]),
                       FMul(npath.qd_max, last.args.dt))

(***************************************************************************)
(* Properties of Path and NPath, under SpecPath                            *)
(***************************************************************************)
\* the last call was Path.step, made with zero tracking error
ZeroErrorStep ==
    /\ last.obj = "path"
    /\ last.op = "step"
    /\ last.before.q = last.before.q_d
    /\ last.before.qd = last.before.qd_d

\* C11 as stated: Path.step(dt) from a state with zero tracking error
\* (q = q_d and qd = qd_d) leaves qdd = 0 and leaves q, qd, q_d and qd_d as
\* they were, for any dt and any qd.
C11_ZeroErrorUnchanged ==
    ZeroErrorStep =>
        /\ path.qdd = 0
        /\ <<path.q, path.qd, path.q_d, path.qd_d>> =
           <<last.before.q, last.before.qd, last.before.q_d, last.before.qd_d>>

\* C11 as the code has it: Path.step(dt) from a state with zero tracking
\* error leaves qdd = 0 and leaves qd and qd_d as they were; q and q_d both
\* advance by qd * dt, so the tracking error stays zero, and the positions
\* are unchanged only when qd = 0 or dt = 0.
C11_ZeroErrorStep ==
    ZeroErrorStep =>
        /\ path.qdd = 0
        /\ path.qd = last.before.qd
        /\ path.qd_d = last.before.qd_d
        /\ path.q = last.before.q + Mul(last.before.qd, last.args.dt)
        /\ path.q_d = last.before.q_d + Mul(last.before.qd_d, last.args.dt)
        /\ path.q = path.q_d
        /\ (last.before.qd = 0 \/ last.args.dt = 0) =>
               (path.q = last.before.q /\ path.q_d = last.before.q_d)

\* a step with zero tracking error, a velocity of 30 units/s and dt = 0.005 s
C11_Witness ==
    /\ ZeroErrorStep
    /\ last.before.qd = 30 * SCALE
    /\ last.args.dt = SubStep
    /\ path.q = last.before.q + 150
    /\ path.q_d = path.q

\* x held within -limit .. limit
Clamp(x, limit) == Min2(limit, Max2(x, -limit))

\* C12: Path.step(dt) is this update, every right-hand side read before the
\* step: qdd' = clamp(k*(q_d - q) + b*(qd_d - qd), qdd_max), q' = q + qd*dt
\* with the velocity from before the step, qd' = clamp(qd + qdd'*dt, qd_max),
\* q_d' = q_d + qd_d*dt, t' = t + dt; k, b, qd_d and the limits stay.
C12_StepUpdate ==
    (last.obj = "path" /\ last.op = "step") =>
        LET o  == last.before
            dt == last.args.dt
        IN  /\ path.qdd = Clamp(Mul(ToMilli(o.k), o.q_d - o.q)
                                + Mul(ToMilli(o.b), o.qd_d - o.qd), o.qdd_max)
            /\ path.q = o.q + Mul(o.qd, dt)
            /\ path.qd = Clamp(o.qd + Mul(path.qdd, dt), o.qd_max)
            /\ path.q_d = o.q_d + Mul(o.qd_d, dt)
            /\ path.t = DblAdd(o.t, Dbl(dt))
            /\ <<path.k, path.b, path.qd_d, path.qd_max, path.qdd_max>> =
               <<o.k, o.b, o.qd_d, o.qd_max, o.qdd_max>>

\* a step with dt > 0 from a moving state with a moving target, in which both
\* clamps act
C12_Witness ==
    /\ last.obj = "path"
    /\ last.op = "step"
    /\ last.args.dt > 0
    /\ last.before.qd = path.qd_max
    /\ last.before.qd_d # 0
    /\ path.qdd = path.qdd_max
    /\ path.qd = path.qd_max
    /\ path.q = last.before.q + Mul(path.qd_max, last.args.dt)
    /\ path.q_d # last.before.q_d

\* the last call was update_for_interval; Elapsed is the exact time it added
\* to the model time of generator o
IsUpdate == last.op = "update_for_interval"
Current == IF last.obj = "path" THEN path ELSE IF last.obj = "npath" THEN npath ELSE winch
Generators ==
    IF last.obj = "winch" THEN {<<winch[a], last.before[a]>> : a \in Axes}
    ELSE {<<Current, last.before>>}
Elapsed(g) == DblExactSub(g[1].t, g[2].t)

\* the distance of two times, and the rounding a float sum may carry: 2^-40 s,
\* under 1e-12 s
DblDist(a, b) == IF DblLess(a, b) THEN DblExactSub(b, a) ELSE DblExactSub(a, b)
TimeTol == <<0, 0, 2 ^ 20>>
Near(a, b) == DblLess(DblDist(a, b), TimeTol)

\* the exact sum of a sequence of times
DblPlus(a, b) == DblNorm(a[1] + b[1], a[2] + b[2], a[3] + b[3])
RECURSIVE SumDbl(_)
SumDbl(q) == IF q = <<>> THEN DblZero ELSE DblPlus(Head(q), SumDbl(Tail(q)))

\* C13 as stated: update_for_interval of Path and NPath calls step with whole
\* sub-steps of 0.005 s only and drops the remainder, so t advances by the
\* largest multiple of 0.005 s that does not exceed interval.
C13_Truncation ==
    (IsUpdate /\ last.obj \in {"path", "npath"}) =>
        /\ \A n \in 1..Len(last.args.dts) : last.args.dts[n] = SubStepDbl
        /\ \A g \in Generators :
               Near(Elapsed(g), IF last.args.interval > 0
                                THEN Dbl(SubStep * (last.args.interval \div SubStep))
                                ELSE DblZero)

\* C13 as the code has it: update_for_interval of Path and NPath drops
\* nothing.  It calls step with whole sub-steps of 0.005 s and then, when a
\* remainder below one sub-step is left, once more with that remainder as dt,
\* so t advances by interval itself (up to the rounding of the float sums).
C13_RemainderStep ==
    (IsUpdate /\ last.obj \in {"path", "npath"} /\ last.args.interval > 0) =>
        LET dts == last.args.dts
        IN  /\ Len(dts) >= 1
            /\ \A n \in 1..(Len(dts) - 1) : dts[n] = SubStepDbl
            /\ DblLess(DblZero, dts[Len(dts)]) /\ ~DblLess(SubStepDbl, dts[Len(dts)])
            /\ (last.args.interval % SubStep) # 0 =>
                   Ms(dts[Len(dts)]) = (last.args.interval % SubStep)
            /\ \A g \in Generators : Near(Elapsed(g), Dbl(last.args.interval))

\* NPath.update_for_interval(0.012): steps of 0.005, 0.005 and 0.002 s
C13_Witness ==
    /\ IsUpdate
    /\ last.obj = "npath"
    /\ last.args.interval = 12
    /\ Len(last.args.dts) = 3
    /\ Ms(last.args.dts[3]) = 2
    /\ npath.t = DblAdd(last.before.t, Dbl(12))

Commands ==
    {"set_target", "increment_target", "increment_reference", "set_velocity",
     "set_speed", "set_freq_damping"}
ServoState == {"q", "qd", "qdd", "t"}
Changed == {f \in DOMAIN last.before : Current[f] # last.before[f]}
OwnFields ==
    CASE last.op = "set_freq_damping" -> {"k", "b"}
      [] last.op = "set_speed" -> {"speed"}
      [] last.op = "set_velocity" -> {"qd_d"}
      [] last.op = "increment_reference" -> {"q_d"}
      [] last.op \in {"set_target", "increment_target"} ->
             IF last.obj = "path" THEN {"q_d"} ELSE {"q_d_d"}
      [] OTHER -> {}

\* C15: every command of Path and NPath (set_target, increment_target,
\* increment_reference, set_velocity, set_speed, set_freq_damping) leaves q,
\* qd, qdd and t unchanged and changes only its own field: set_freq_damping
\* k and b, set_speed speed, set_velocity qd_d, the target commands q_d
\* (Path) or q_d_d (NPath), increment_reference q_d.
C15_CommandFrame ==
    (last.obj \in {"path", "npath"} /\ last.op \in Commands) =>
        /\ Changed \cap ServoState = {}
        /\ Changed \subseteq OwnFields

\* a command that changed its field on a generator that is moving
C15_Witness ==
    /\ last.obj \in {"path", "npath"}
    /\ last.op \in Commands
    /\ Changed = OwnFields
    /\ last.before.qd # (IF last.obj = "path" THEN NewPath.qd ELSE NewNPath.qd)
    /\ last.before.t # DblZero

\* the closed forms (2*pi*freq)^2 and 2*sqrt(k)*damping; CriticalRatio is
\* b^2 = 4*k*damping^2 up to the rounding of the products
ClosedK(freq) ==
    MulF(MulF(MulF(2 * FINE, PIF), ToFine(freq)), MulF(MulF(2 * FINE, PIF), ToFine(freq)))
ClosedB(freq, damping) == MulF(MulF(2 * FINE, SqrtF(ClosedK(freq))), ToFine(damping))
CriticalRatio(k, b, damping) ==
    Abs(MulF(b, b) - MulF(MulF(4 * FINE, k), MulF(ToFine(damping), ToFine(damping))))
        <= 4 * (1 + ToMilli(b) \div SCALE)

\* C16: after set_freq_damping(freq, damping) the gains are
\* k = (2*pi*freq)^2 and b = 2*sqrt(k)*damping, so that b^2 = 4*k*damping^2;
\* NPath.set_freq_damping(axis, freq, damping) stores exactly these values,
\* the same pair on every listed axis, and leaves k and b of the axes not
\* listed unchanged.
C16_ClosedForm ==
    (last.op = "set_freq_damping" /\ last.obj \in {"path", "npath"}) =>
        LET freq == last.args.freq
            damping == last.args.damping
        IN  IF last.obj = "path"
            THEN /\ path.k = ClosedK(freq)
                 /\ path.b = ClosedB(freq, damping)
                 /\ CriticalRatio(path.k, path.b, damping)
            ELSE \A a \in Axes :
                     IF a \in last.args.axis
                     THEN /\ npath.k[a] = ClosedK(freq)
                          /\ npath.b[a] = ClosedB(freq, damping)
                          /\ CriticalRatio(npath.k[a], npath.b[a], damping)
                     ELSE /\ npath.k[a] = last.before.k[a]
                          /\ npath.b[a] = last.before.b[a]

\* the last call was NPath.step; RefError is q_d_d - q_d of axis a of p, and
\* RefMove what the step added to q_d of axis a
IsNPathStep == last.obj = "npath" /\ last.op = "step"
RefError(p, a) == FSub(p.q_d_d[a], p.q_d[a])
RefMove(a) == FSub(npath.q_d[a], last.before.q_d[a])
RefLimit(a) == FMul(last.before.speed[a], last.args.dt)

C18_VelocityOfState ==
    IsNPathStep =>
        \A a \in Axes :
            IF IsInf(npath.speed[a]) \/ npath.q_d[a] = npath.q_d_d[a]
            THEN npath.qd_d[a] = 0
            ELSE npath.qd_d[a] = Sgn(RefError(npath, a)) * npath.speed[a]

\* C18 as the code has it: step sets qd_d from the reference error it finds,
\* before it moves the reference: qd_d is zero if the speed is infinite or
\* that error was zero, and otherwise the speed with the sign of that error.
\* On the step that brings q_d onto q_d_d, qd_d is still the signed speed; it
\* is zero from the next step on.  An axis whose reference is nan gets a nan
\* qd_d.
C18_VelocityOfStep ==
    IsNPathStep =>
        \A a \in Axes :
            LET err0 == RefError(last.before, a)
            IN  /\ npath.speed[a] = last.before.speed[a]
                /\ IF IsNaN(err0) THEN IsNaN(npath.qd_d[a])
                   ELSE IF IsInf(npath.speed[a]) \/ err0 = 0 THEN npath.qd_d[a] = 0
                   ELSE npath.qd_d[a] = Sgn(err0) * npath.speed[a]

\* the step that brings the reference onto the target at a finite speed
C18_Witness ==
    /\ IsNPathStep
    /\ \E a \in Axes :
           /\ ~IsInf(npath.speed[a])
           /\ RefError(last.before, a) # 0
           /\ npath.q_d[a] = npath.q_d_d[a]
           /\ npath.qd_d[a] = Sgn(RefError(last.before, a)) * npath.speed[a]

(***************************************************************************)
(* Properties of the NPath reference ramp, under SpecRamp                  *)
(***************************************************************************)
\* ceil(|q_d_d - q_d| / (speed * dt)) for axis a of p; one step when the
\* speed is unlimited, none when the reference is on the target
StepsNeeded(p, a, dt) ==
    IF RefError(p, a) = 0 THEN 0
    ELSE IF IsInf(p.speed[a]) \/ p.speed[a] <= 0 THEN 1
    ELSE (Abs(RefError(p, a)) + Mul(p.speed[a], dt) - 1) \div Mul(p.speed[a], dt)
Ramping == last.obj = "ramp"

AxisFields == {"q", "qd", "qdd", "q_d", "qd_d", "q_d_d", "speed", "k", "b"}
AxisView(o, a) == IF last.kind = "npath" THEN [f \in AxisFields |-> o[f][a]] ELSE o[a]
TwinCommandOps == {c.op : c \in TwinCommands(last.kind)}

\* C20: two instances of NPath (of SimWinch) that received the same commands
\* for axis i and the same steps hold the same q, qd, qdd, q_d, qd_d, k and b
\* on axis i, whatever commands each received for the other axes; a command
\* changes no field of an axis it does not name; a call on one instance
\* changes nothing of another instance.
C20_AxisIndependence ==
    last.obj = "twins" =>
        /\ AxisView(First, last.axis) = AxisView(last.twin, last.axis)
        /\ last.op \in TwinCommandOps =>
               /\ \A j \in Axes \ last.args.axis[1] :
                      AxisView(First, j) = AxisView(last.before.a, j)
               /\ \A j \in Axes \ last.args.axis[2] :
                      AxisView(last.twin, j) = AxisView(last.before.b, j)
        /\ last.side = "a" => last.twin = last.before.b
        /\ last.side = "b" => First = last.before.a
        /\ path = NewPath
        /\ IF last.kind = "npath" THEN winch = NewWinch ELSE npath = NewNPath

\* the two instances differ on the other axis, after a command there on one
\* of them and a run that moved the common axis
C20_Witness ==
    /\ last.obj = "twins"
    /\ last.op \in {"step", "update_for_interval"}
    /\ \E j \in Axes \ {last.axis} : AxisView(First, j) # AxisView(last.twin, j)
    /\ AxisView(First, last.axis).q # 0

(***************************************************************************)
(* Independence of the simulators of one frame, under SpecFrame            *)
(***************************************************************************)
\* both passes of a frame are over; what a pass left of simulator i
FrameDone == last.obj = "frame" /\ last.phase = "idle" /\ last.frames > 0
SimOf(s, i) == [t |-> s.t[i], state |-> s.state[i], tau |-> s.tau[i], ctl |-> s.ctl[i]]

\* C21 as stated: for every controller class (free, keyframes, swing-up,
\* spirals, and the PD base class) each simulator is in the same state after
\* a frame whatever the order in which the simulators were ticked.
C21_OrderIndependent ==
    FrameDone => \A i \in Sims : SimOf(last.first, i) = SimOf(last.second, i)

\* C21 as the code has it: the order of the simulators does not matter for
\* the free, keyframes, swing-up and PD controllers, nor for simulator 0
\* under the spirals controller; the spirals controller of every other
\* simulator reads the state of simulator 0 in each step, so its simulator
\* depends on whether simulator 0 was ticked before it.
C21_OrderIndependentButSpirals ==
    FrameDone =>
        \A i \in Sims :
            (kind # "spirals" \/ i = 0) => SimOf(last.first, i) = SimOf(last.second, i)

\* a second frame, run in both orders, has moved the simulators
C21_Witness ==
    /\ FrameDone
    /\ last.frames = 2
    /\ kind \in {"keyframes", "swingup", "free", "pd"}
    /\ \A i \in Sims : /\ last.second.state[i] # last.start.state[i]
                       /\ last.second.t[i] = last.start.t[i] + FrameInterval
                       /\ SimOf(last.first, i) = SimOf(last.second, i)

(***************************************************************************)
(* The PD base class on the default pendulum, under SpecRun                *)
(***************************************************************************)
\* the joint-angle error of simulator 0 on joint j, and its initial value
AngleError(j) == Abs(Gains("pd").d_state[j] - state[0][j])
InitialError(j) == Abs(Gains("pd").d_state[j])

\* the simulator is between two inner steps
AtRest == pc \in {"idle", "while"}
SettleTime == 1 * FINE           \* the shoulder has turned round, microseconds
SlowTime == 12 * FINE            \* the velocities have died out, microseconds
SlowBand == 2000                 \* 0.002 rad/s, in micro rad/s
StateBand == 3 * FINE            \* 3 rad and 3 rad/s, in micro units

\* C22: with the PD base class (kp = (16, 8), kd = (4, 2), setpoint
\* (1.0, pi/2, 0, 0)) on the default pendulum started at (0, 0, 0, 0),
\* repeated timer_tick calls bring both joint-angle errors below their
\* initial values within 1 s, where they stay; the velocities are below
\* 0.002 rad/s from 12 s on; and no angle or velocity ever exceeds 3 in size.
C22_DrivenTowardSetpoint ==
    (last.obj = "run" /\ kind = "pd" /\ AtRest) =>
        /\ \A k \in 1..4 : Abs(state[0][k]) <= StateBand
        /\ t[0] >= SettleTime => \A j \in 1..2 : AngleError(j) < InitialError(j)
        /\ t[0] >= SlowTime => \A j \in 3..4 : Abs(state[0][j]) <= SlowBand

\* the end of the run: the pendulum has moved, is slow and closer to the setpoint
C22_Witness ==
    /\ last.obj = "run" /\ kind = "pd" /\ pc = "idle"
    /\ t[0] = MaxRunFrames * FrameInterval
    /\ \A j \in 1..2 : state[0][j] > 0 /\ AngleError(j) < InitialError(j)
    /\ \A j \in 3..4 : Abs(state[0][j]) <= SlowBand

(***************************************************************************)
(* The energy of the freely swinging pendulum, under SpecEnergy            *)
(***************************************************************************)
\* the change of the mechanical energy of simulator 0 since the start, micro J
EnergyChange == Energy(dyn[0], state[0]) - Energy(dyn[0], last.start)

EnergyRate == 20                 \* J/s: the drift allowed per frame is EnergyRate * dt

\* C23: with zero torque applied (the controller of ndblpend_free), from
\* every start with angles in StartAngles and velocities in StartVelocities,
\* the mechanical energy (kinetic plus gravitational potential) after any
\* number of inner steps of the first frames differs from the energy at the
\* start by at most 20 J/s * dt = 0.02 J for each frame of 40 steps begun.
C23_EnergyDrift ==
    (last.obj = "energy" /\ AtRest) =>
        Abs(EnergyChange) <= last.frames * EnergyRate * DTF

\* a frame has run from a moving start: the energy has changed, within the bound
C23_Witness ==
    /\ last.obj = "energy" /\ pc = "idle"
    /\ last.frames = 1
    /\ t[0] = FrameInterval
    /\ last.start[3] # 0
    /\ tau[0] = Zero2
    /\ state[0] # last.start
    /\ EnergyChange # 0
    /\ Abs(EnergyChange) <= EnergyRate * DTF

(***************************************************************************)
(* The keyframe controller, under SpecRun                                  *)
(***************************************************************************)
\* the time of the latest compute_control call of simulator 0
Stepped == IF pc \in {"deriv", "euler", "advance"} THEN t[0] >= 0 ELSE t[0] > 0
ControlTime == IF pc \in {"deriv", "euler", "advance"} THEN t[0] ELSE t[0] - DTF

\* the PD torques for the pose of frame n
PoseTorque(n, j) ==
    LET pose == ctl[0].keyframes[n % NumKeyframes]
    IN  PDTorque(Gains("keyframes"), <<ToFine(pose[1]), ToFine(pose[2]), 0, 0>>,
                 state[0], j)

\* C24: in a run of timer_tick calls with no reset the torques of the
\* keyframe controller at time t are the PD torques for the pose
\* keyframes[floor(t / 1.5) mod 4] with zero target velocity, and the console
\* holds "Starting frame n" once for each n = 0, 1, 2, ... up to the frame of
\* the latest inner step, in this order: the message of frame n is written by
\* the first inner step of frame n and by no other.
C24_KeyframeSchedule ==
    (last.obj = "run" /\ kind = "keyframes") =>
        /\ (pc = "deriv") =>
               tau[0] = <<PoseTorque(t[0] \div FrameLen, 1), PoseTorque(t[0] \div FrameLen, 2)>>
        /\ ctl[0].console =
               [n \in 1 .. (IF Stepped THEN (ControlTime \div FrameLen) + 1 ELSE 0) |->
                    <<"Starting frame", n - 1>>]

\* the fifth frame has begun on configured poses: the first pose is applied again
C24_Witness ==
    /\ last.obj = "run" /\ kind = "keyframes" /\ pc = "deriv"
    /\ t[0] = 4 * FrameLen
    /\ ctl[0].keyframes = ConfiguredKeyframes
    /\ tau[0] = <<PoseTorque(0, 1), PoseTorque(0, 2)>>
    /\ tau[0] # <<PoseTorque(3, 1), PoseTorque(3, 2)>>
    /\ Len(ctl[0].console) = 5

(***************************************************************************)
(* The swing-up controller, under SpecSwing                                *)
(***************************************************************************)
\* the three bands of the shoulder: at rest at the bottom, near the bottom, away
AtBottom(st) == Abs(st[3]) < RestBand /\ Abs(st[1]) < RestBand
NearBottom(st) == ~AtBottom(st) /\ Abs(st[1]) < PumpBand
Away(st) == ~AtBottom(st) /\ ~(Abs(st[1]) < PumpBand)

\* the torques the three policies give in state st
PolicyTorques(st) ==
    <<IF AtBottom(st) THEN SCALE
      ELSE IF NearBottom(st) THEN Mul(VelocityGain, ToMilli(st[3]))
      ELSE Mul(FrictionDamping, ToMilli(st[3])),
      Mul(FrictionDamping, ToMilli(st[4]))>>

\* C25: the swing-up controller sets tau[0] = 1.0 when |q0| < 0.01 and
\* |qd0| < 0.01, otherwise tau[0] = velocity_gain * qd0 when |q0| < 0.5,
\* otherwise tau[0] = friction_damping * qd0, and always
\* tau[1] = friction_damping * qd1, whatever tau held before; and a
\* simulator started at rest at (0, 0, 0, 0) is away from (0, 0, 0, 0) after
\* every inner step and outside the rest band at the end of its first frame.
C25_SwingupPolicy ==
    last.obj = "swing" =>
        /\ ret.op = "compute_control" => ret.out.tau = PolicyTorques(ret.state_in)
        /\ pc = "deriv" => tau[cur] = PolicyTorques(state[cur])
        /\ \A i \in Sims :
              /\ (AtRest /\ t[i] > 0) => state[i] # Zero4
              /\ (pc = "idle" /\ t[i] = FrameInterval) => ~AtBottom(state[i])

\* a simulator started at rest was kicked out of the rest band and is pumped
C25_Witness ==
    /\ last.obj = "swing" /\ pc = "deriv"
    /\ stp.tick.state0 = Zero4
    /\ NearBottom(state[cur])
    /\ tau[cur] = <<Mul(VelocityGain, ToMilli(state[cur][3])),
                    Mul(FrictionDamping, ToMilli(state[cur][4]))>>
    /\ tau[cur][1] > 0 /\ tau[cur][2] > 0

(***************************************************************************)
(* timer_tick on a simulator without a controller, under Spec              *)
(***************************************************************************)
\* the fields of the simulators are left as they are
SimsUntouched == UNCHANGED <<t, state, tau, dydt, origin, dyn, control, ctl>>

\* C26: timer_tick on a simulator with no controller, with delta_t <= 0, runs
\* no inner step and returns with nothing changed; with delta_t > 0 it fails
\* in its first inner step at the call of compute_control, before the
\* derivative is computed, and state, t and tau (and dydt) are as they were
\* before the call.
C26_NoControllerTick ==
    [][(pc # "idle" /\ control[cur] = "none") =>
          /\ SimsUntouched
          /\ stp.tick.n = 0
          /\ state[cur] = stp.tick.state0 /\ t[cur] = stp.tick.t0
          /\ pc = "while" => /\ delta_t = stp.tick.delta_t
                             /\ pc' = IF delta_t > 0 THEN "control" ELSE "idle"
                             /\ delta_t <= 0 => ret'.op = "timer_tick" /\ ret'.n = 0
          /\ pc = "control" => pc' = "raised" /\ stp'.events = <<"raise">>
          /\ pc = "raised" => pc' = "idle"]_vars

\* the call has failed in its first inner step
C26_Witness ==
    /\ pc = "raised"
    /\ control[cur] = "none"
    /\ stp.tick.delta_t > 0
    /\ stp.tick.n = 0
    /\ stp.events = <<"raise">>
    /\ dydt[cur] = Uninit4

(***************************************************************************)
(* C30: a cue ('gains', f, d) sets the gains of every axis to those of     *)
(* frequency f and damping ratio d                                         *)
(***************************************************************************)
\* process_cue was given a gains cue last
AfterGainsCue == show.after[1] = "gains"

\* the gains of frequency f and damping ratio d, as an NPath stores them
GainsOf(f, d) == [k |-> F32(FreqGain(f)), b |-> F32(DampGain(FreqGain(f), d))]

\* C30: once process_cue has been given ('gains', f, d), every axis of the
\* simulator has k = (2*pi*f)^2 and b = 2*sqrt(k)*d, whatever the damping
\* ratio was before
C30_GainsCue ==
    AfterGainsCue =>
        \A a \in Axes : /\ npath.k[a] = GainsOf(show.after[2], show.after[3]).k
                        /\ npath.b[a] = GainsOf(show.after[2], show.after[3]).b

\* what the code does: k is that of f, b is that of f and of the damping
\* ratio set_damping left, or the initial 1.0
C30_GainsCueKeepsRatio ==
    AfterGainsCue =>
        \A a \in Axes :
            /\ npath.k[a] = GainsOf(show.after[2], show.primitives.damping_ratio).k
            /\ npath.b[a] = GainsOf(show.after[2], show.primitives.damping_ratio).b
            /\ show.primitives.damping = [set |-> TRUE, value |-> show.after[3]]

\* the reset cue ('gains', 0.5, 1.0) after set_damping(0.5)
C30_Witness ==
    /\ AfterGainsCue
    /\ show.after[3] = SCALE
    /\ show.primitives.damping_ratio = 500
    /\ npath.b[0] # GainsOf(show.after[2], show.after[3]).b

(***************************************************************************)
(* C29: the status messages of update_for_interval alternate, follow the   *)
(* two thresholds and keep 0.1 s apart                                     *)
(***************************************************************************)
\* this step is an update_for_interval that puts a status message
StatusSent == show.polled /\ Len(show'.input) > Len(show.input)
SentWord == show'.input[Len(show'.input)][2]

\* C29: the status messages are 'moving', 'stopped', 'moving', ..., the
\* first one 'moving'; 'moving' is sent only on a squared velocity above 10,
\* 'stopped' only below 5, nothing from 5 to 10, and a message comes no
\* sooner than 0.1 s of accumulated interval after the one before
C29_StatusAlternates ==
    [][/\ StatusSent =>
            /\ SentWord \in {"moving", "stopped"}
            /\ SentWord # show.status
            /\ show.status = "none" => SentWord = "moving"
            /\ SentWord = "moving" => SqVelMag(npath) > 10 * SCALE
            /\ SentWord = "stopped" => SqVelMag(npath) < 5 * SCALE
            /\ show.status # "none" => show.elapsed + FrameMs >= 100
       /\ (show.polled /\ SqVelMag(npath) >= 5 * SCALE /\ SqVelMag(npath) <= 10 * SCALE)
            => Len(show'.input) <= Len(show.input)]_vars

\* 'moving' sent again after a 'stopped' that ended a wait_until_stopped
C29_Witness ==
    /\ show.status = "moving"
    /\ show.elapsed = 0
    /\ show.ended.set

(***************************************************************************)
(* C27: a user stop dequeued in a sleep or a wait_until_stopped ends the   *)
(* sequence; a later play starts it again; other messages are consumed     *)
(***************************************************************************)
\* this step is a get of the script thread, and the message it returns
Dequeued == Len(show'.input) < Len(show.input)
Got == Head(show.input)

\* the items this step puts on the output queue
PutNow == SubSeq(show'.output, Len(show.output) + 1, Len(show'.output))
IsCueOrShow(item) == item[1] \in {"cue", "show"}

\* the thread is at the first statement of sequence()
AtStart(s) == s.at = 1 /\ ~s.waiting

\* C27: a ('console','stop') dequeued in a sleep or wait_until_stopped of the
\* running sequence puts the thread back in its top loop with no cue or show
\* message put; the sequence is entered from the top loop only, by a play or
\* start command dequeued there, and at its first statement; any other
\* message dequeued in a sleep leaves the queue for good, and the sleep goes
\* on or ends by its timeout with no cue or show message put
C27_StopAbortsSequence ==
    [][/\ (Dequeued /\ show.waiting /\ UserStop(Got)) =>
            /\ show'.at = 0
            /\ ~show'.waiting
            /\ SelectSeq(PutNow, IsCueOrShow) = <<>>
            /\ show'.sent = show.sent
       /\ (Dequeued /\ show.at = 0 /\ Got[1] = "console" /\ Got[2] = "play") => AtStart(show')
       /\ (show.at = 0 /\ show'.at > 0) =>
            /\ AtStart(show')
            /\ Dequeued
            /\ Got[2] \in {"play", "start"}
       /\ (Dequeued /\ show.waiting /\ Sequence[show.at].op = "sleep" /\ ~UserStop(Got)) =>
            /\ show'.input = Tail(show.input)
            /\ show'.at \in {show.at, show.at + 1}
            /\ show'.at = show.at + 1 => show.now >= show.deadline
            /\ SelectSeq(PutNow, IsCueOrShow) = <<>>]_vars

\* a stop was dequeued in the wait_until_stopped that follows the first
\* lead pose, and the sequence has been started again by a play: the thread
\* has written its first line and is about to send the first cue
C27_Witness ==
    /\ show.stopped_at = 6
    /\ Sequence[6].op = "wait"
    /\ show.at = 2
    /\ Len(show.output) > 0
    /\ show.output[Len(show.output)][2][1] = "Script starting."

\* a stop dequeued in a sleep, a status message consumed by a sleep before
C27_WitnessSleep ==
    /\ show.stopped_at = 4
    /\ Sequence[4].op = "sleep"
    /\ show.at = 0
    /\ show.status # "none"

(***************************************************************************)
(* C28: wait_until_stopped returns only after the cue sent before it was   *)
(* applied and the motion it caused has come to rest                       *)
(***************************************************************************)
\* C28: when wait_until_stopped has returned normally, the status message
\* that ended it was produced after the main thread had applied the cue the
\* script sent before the wait, and after the simulator had been updated
\* under that cue: a message about an earlier motion does not end the wait
C28_WaitForOwnMotion ==
    show.ended.set =>
        /\ show.ended.applied >= show.ended.cue
        /\ show.ended.stepped >= 1

\* a wait ended by a message produced before its cue was applied
C28_EndedBeforeApplied == show.ended.set /\ show.ended.applied < show.ended.cue

\* a wait ended by a message produced in the frame that applied its cue,
\* from the velocity the simulator had before
C28_EndedBeforeMotion ==
    show.ended.set /\ show.ended.applied >= show.ended.cue /\ show.ended.stepped = 0

\* a wait ended by a message produced after the cue was applied and the
\* simulator updated
C28_EndedAfterMotion ==
    show.ended.set /\ show.ended.applied >= show.ended.cue /\ show.ended.stepped >= 1

=============================================================================
